---- MODULE Spec2Model ----
(***************************************************************************)
(* Ingestion and caching engine of spheraform: download jobs, the download *)
(* service, the two storage backends and the crawl orchestration, as state *)
(* machines over the committed catalog rows and the worker sessions.       *)
(*                                                                         *)
(* A worker writes through an ORM session.  Attribute writes stay in the   *)
(* session (sds, stbl) until a commit of that session, and every commit of *)
(* the session publishes all of them, whichever function issued it.  Job   *)
(* rows are written attribute by attribute and committed at once, so the   *)
(* model updates the committed job row field by field.                     *)
(***************************************************************************)
EXTENDS Integers, Sequences, FiniteSets, TLC

\* ----- bounds of the model
MaxJobs == 1
MaxSyncDownloads == 1
MaxHalfBatches == 4
MaxCrawlJobs == 1
MaxServices == 3

\* ----- program constants
batch_size == 1000
page_size == 1000
MIN_FEATURES_FOR_OBJECT_STORAGE == 10000

NULL == 0
NoName == "null"
CacheTableName == "cache_hex32"
DataKey == "datasets/id/data.parquet"
TilesKey == "datasets/id/tiles.pmtiles"

JobIds == 1..MaxJobs
CrawlIds == 1..MaxCrawlJobs
Services == 1..MaxServices
NoCount == -1
Strategies == {"simple", "paged", "chunked", "distributed"}
TerminalStatus == {"completed", "failed", "cancelled"}

\* Feature totals an upstream layer can report (multiples of half a batch).
FeatureTotals == {k * (batch_size \div 2) : k \in 0..MaxHalfBatches}

VARIABLES
    cfg,        \* environment: STORAGE_BACKEND, USE_OBJECT_STORAGE_FOR_LARGE_DATASETS
    dataset,    \* committed Dataset row (cache fields and strategy)
    jobs,       \* committed DownloadJob rows
    tbl,        \* committed state of the dataset's cache table in the spatial DB
    s3,         \* object storage: attempt that wrote each key, NULL when absent
    now,        \* value datetime.utcnow() returns
    dlq,        \* messages in the "downloads" queue
    dispatched, \* jobs whose download.process_job message was sent
    run,        \* the download task or synchronous download in progress
    sds,        \* Dataset row as seen by the running session (uncommitted writes)
    stbl,       \* cache table as seen by the running session (uncommitted DDL and rows)
    pw,         \* polling DownloadWorker thread
    syncs,      \* synchronous downloads started so far
    hist        \* history: where a cancel request met the download, which attempts saw it

VARIABLES
    use_celery, \* settings.use_celery
    upstream,   \* number of services the remote catalog lists (one layer each)
    cjobs,      \* committed CrawlJob rows
    server,     \* committed Geoserver row
    catalog,    \* committed Dataset rows of the server: rows per access URL
    pcj,        \* crawl.process_server task of each job
    psv,        \* crawl.process_service task of each (job, service)
    cw,         \* polling CrawlWorker thread
    api,        \* status and cancel requests between their read and their commit
    chist       \* history: Dataset rows each crawl inserted and updated

VARIABLES
    ad,         \* a call of an ArcGISAdapter method: its inputs, position, result
    peer        \* a second download job of the same dataset, in another worker process

dlvars == <<cfg, dataset, jobs, tbl, s3, now, dlq, dispatched, run, sds, stbl, pw, syncs, hist>>

crawlvars == <<use_celery, upstream, cjobs, server, catalog, pcj, psv, cw, api, chist>>

advars == <<ad, peer>>

vars == <<dlvars, crawlvars, advars>>

\* No adapter call is being followed.
NoCall == [op |-> "none"]

\* No second download of the dataset is running.
NoPeer == [pc |-> "idle", attempt |-> 0, n |-> 0, count |-> 0]

\* ---------------------------------------------------------------------------
\* Rows

NoJob == [status |-> "none", started_at |-> NULL, completed_at |-> NULL,
          current_stage |-> NoName, error |-> FALSE,
          total_features |-> NULL, features_downloaded |-> 0,
          features_stored |-> 0]

NoTable == [exists |-> FALSE, rows |-> 0, indexed |-> FALSE, src |-> 0, by |-> 0]

NoDataset ==
    [download_strategy |-> "simple", is_cached |-> FALSE, cached_at |-> NULL,
     cache_table |-> NoName, storage_format |-> "postgis", use_s3_storage |-> FALSE,
     s3_data_key |-> NoName, s3_tiles_key |-> NoName, feature_count |-> 0]

\* pc: position of the running download; before: the committed Dataset row
\* when download_and_cache was entered; cause: why download_and_cache raised.
\* total: total_count of the adapter's count query; n: features written to the
\* temp file; late: page requests sent while the job row was Cancelled.
IdleRun == [pc |-> "idle", job |-> 0, attempt |-> 0, n |-> 0, count |-> 0,
            cancelled |-> FALSE, cause |-> "none", before |-> NoDataset,
            total |-> 0, late |-> 0]

Min(a, b) == IF a < b THEN a ELSE b


\* The job row a session reads back: the committed one.
JobCancelled(j) == j # 0 /\ jobs[j].status = "cancelled"

\* ---------------------------------------------------------------------------
\* DownloadService._should_use_object_storage

should_use_object_storage(ds, feature_count) ==
    LET count == IF feature_count # 0 THEN feature_count ELSE ds.feature_count IN
    IF cfg.STORAGE_BACKEND = "object_storage" THEN TRUE
    ELSE IF cfg.STORAGE_BACKEND = "postgis" THEN FALSE
    ELSE IF ~cfg.USE_OBJECT_STORAGE_FOR_LARGE_DATASETS THEN FALSE
    ELSE IF ds.use_s3_storage THEN TRUE
    ELSE IF count # 0 /\ count >= MIN_FEATURES_FOR_OBJECT_STORAGE THEN TRUE
    ELSE IF ds.download_strategy \in {"chunked", "distributed"} THEN TRUE
    ELSE FALSE

\* ---------------------------------------------------------------------------
\* Initial state: an uncached dataset, no jobs, empty stores.

InitDataset(st) == [NoDataset EXCEPT !.download_strategy = st]

DlInit ==
    /\ cfg \in [STORAGE_BACKEND : {"hybrid", "postgis", "object_storage"},
                USE_OBJECT_STORAGE_FOR_LARGE_DATASETS : BOOLEAN]
    /\ \E st \in Strategies : dataset = InitDataset(st)
    /\ jobs = [j \in JobIds |-> NoJob]
    /\ tbl = NoTable
    /\ s3 = [landing |-> NULL, data |-> NULL, tiles |-> NULL]
    /\ now = 1
    /\ dlq = {}
    /\ dispatched = {}
    /\ run = IdleRun
    /\ sds = dataset
    /\ stbl = tbl
    /\ pw = [pending |-> {}, cur |-> 0]
    /\ syncs = 0
    /\ hist = [flip |-> [j \in JobIds |-> "none"], observed |-> {},
               code |-> [j \in JobIds |-> 0], killed |-> {}]

\* ---------------------------------------------------------------------------
\* API: POST /download (routers/download.py)

AlreadyCached(force_refresh) == dataset.is_cached /\ ~force_refresh

NewJob == [NoJob EXCEPT !.status = "pending"]

\* needs_async branch: a Pending DownloadJob row is created and committed.
download_datasets_queue(j) ==
    /\ jobs[j].status = "none"
    /\ \A i \in JobIds : i < j => jobs[i].status \in TerminalStatus
    /\ run.pc = "idle" /\ pw.cur = 0 /\ dlq = {}
    /\ \E force_refresh \in BOOLEAN : ~AlreadyCached(force_refresh)
    /\ dataset.download_strategy \in {"chunked", "distributed"}
    /\ jobs' = [jobs EXCEPT ![j] = NewJob]
    /\ UNCHANGED crawlvars
    /\ UNCHANGED advars
    /\ UNCHANGED <<cfg, dataset, tbl, s3, now, dlq, dispatched, run, sds, stbl, pw, syncs, hist>>

\* A Pending DownloadJob row written straight into the catalog, as the
\* integration tests do for datasets of any strategy.
insert_pending_job(j) ==
    /\ jobs[j].status = "none"
    /\ \A i \in JobIds : i < j => jobs[i].status \in TerminalStatus
    /\ run.pc = "idle" /\ pw.cur = 0 /\ dlq = {}
    /\ dataset.download_strategy \in {"simple", "paged"}
    /\ jobs' = [jobs EXCEPT ![j] = NewJob]
    /\ UNCHANGED crawlvars
    /\ UNCHANGED advars
    /\ UNCHANGED <<cfg, dataset, tbl, s3, now, dlq, dispatched, run, sds, stbl, pw, syncs, hist>>

\* The orchestrator sends download.process_job for a job created in the catalog.
dispatch_download_job(j) ==
    /\ jobs[j].status = "pending"
    /\ j \notin dispatched
    /\ dispatched' = dispatched \cup {j}
    /\ dlq' = dlq \cup {<<"download.process_job", j>>}
    /\ UNCHANGED crawlvars
    /\ UNCHANGED advars
    /\ UNCHANGED <<cfg, dataset, jobs, tbl, s3, now, run, sds, stbl, pw, syncs, hist>>

\* Positions of download_and_cache inside adapter.download_paged.
FetchingPcs == {"fetch", "paging"}

\* Positions of download_and_cache inside a backend's store_dataset.
StoringPcs == {"pg_store", "pg_loop", "pg_index", "pg_create_index",
               "s3_store", "s3_landing", "s3_parquet", "s3_tiles"}

\* POST /download/jobs/{id}/cancel
cancel_download_job(j) ==
    /\ jobs[j].status \in {"running", "pending"}
    /\ jobs' = [jobs EXCEPT ![j].status = "cancelled",
                            ![j].completed_at = now,
                            ![j].current_stage = "cancelled"]
    /\ hist' = [hist EXCEPT !.flip[j] =
                    IF run.job = j /\ run.pc \in StoringPcs THEN "storing"
                    ELSE IF run.job = j /\ run.pc \in FetchingPcs THEN "fetching"
                    ELSE "elsewhere",
                             !.code[j] = 200]
    /\ UNCHANGED crawlvars
    /\ UNCHANGED advars
    /\ UNCHANGED <<cfg, dataset, tbl, s3, now, dlq, dispatched, run, sds, stbl, pw, syncs>>

\* The same request for a job that is Completed, Failed or Cancelled: the
\* response is HTTP 400 ("Cannot cancel ...") and nothing is written.
cancel_download_job_rejected(j) ==
    /\ jobs[j].status \in TerminalStatus
    /\ hist' = [hist EXCEPT !.code[j] = 400]
    /\ UNCHANGED crawlvars
    /\ UNCHANGED advars
    /\ UNCHANGED <<cfg, dataset, jobs, tbl, s3, now, dlq, dispatched, run, sds, stbl, pw, syncs>>

\* ---------------------------------------------------------------------------
\* Celery tasks (tasks/download.py)

process_download_job(j) ==
    /\ run.pc = "idle"
    /\ <<"download.process_job", j>> \in dlq
    /\ jobs' = [jobs EXCEPT ![j].status = "running",
                            ![j].started_at = now,
                            ![j].current_stage = "routing"]
    /\ LET next == IF dataset.download_strategy = "simple" THEN "download.simple"
                   ELSE IF dataset.download_strategy = "paged" THEN "download.paged"
                   ELSE IF dataset.download_strategy = "chunked" THEN "download.chunked"
                   ELSE "download.paged"
       IN dlq' = (dlq \ {<<"download.process_job", j>>}) \cup {<<next, j>>}
    /\ UNCHANGED crawlvars
    /\ UNCHANGED advars
    /\ UNCHANGED <<cfg, dataset, tbl, s3, now, dispatched, run, sds, stbl, pw, syncs, hist>>

download_chunked(j) ==
    /\ run.pc = "idle"
    /\ <<"download.chunked", j>> \in dlq
    /\ dlq' = (dlq \ {<<"download.chunked", j>>}) \cup {<<"download.paged", j>>}
    /\ UNCHANGED crawlvars
    /\ UNCHANGED advars
    /\ UNCHANGED <<cfg, dataset, jobs, tbl, s3, now, dispatched, run, sds, stbl, pw, syncs, hist>>

\* Start of download_simple / download_paged up to the call of
\* download_and_cache: stage "downloading" is committed.
task_start(name, j) ==
    /\ run.pc = "idle"
    /\ <<name, j>> \in dlq
    /\ dlq' = dlq \ {<<name, j>>}
    /\ jobs' = [jobs EXCEPT ![j].current_stage = "downloading"]
    /\ now' = now + 1
    /\ run' = [IdleRun EXCEPT !.pc = "fetch", !.job = j, !.attempt = now', !.before = dataset]
    /\ sds' = dataset
    /\ stbl' = tbl
    /\ UNCHANGED crawlvars
    /\ UNCHANGED advars
    /\ UNCHANGED <<cfg, dataset, tbl, s3, dispatched, pw, syncs, hist>>

download_simple(j) == task_start("download.simple", j)

download_paged(j) == task_start("download.paged", j)

\* Synchronous branch of POST /download: download_and_cache without a job.
download_datasets_sync ==
    /\ run.pc = "idle"
    /\ syncs < MaxSyncDownloads
    /\ \E force_refresh \in BOOLEAN : ~AlreadyCached(force_refresh)
    /\ dataset.download_strategy \notin {"chunked", "distributed"}
    /\ syncs' = syncs + 1
    /\ now' = now + 1
    /\ run' = [IdleRun EXCEPT !.pc = "fetch", !.job = 0, !.attempt = now', !.before = dataset]
    /\ sds' = dataset
    /\ stbl' = tbl
    /\ UNCHANGED crawlvars
    /\ UNCHANGED advars
    /\ UNCHANGED <<cfg, dataset, jobs, tbl, s3, dlq, dispatched, pw, hist>>


\* ---------------------------------------------------------------------------
\* DownloadService.download_and_cache (services/download.py)

\* A commit of the running session publishes its Dataset writes and its
\* table DDL and rows.
Commit == dataset' = sds' /\ tbl' = stbl'

HasJob == run.job # 0

\* ArcGISAdapter.download_paged: the count query.  An exception of _request
\* becomes DownloadResult(success=False); a count of 0 returns an empty file.
adapter_download_paged_count ==
    /\ run.pc = "fetch"
    /\ \E ok \in BOOLEAN, total_count \in FeatureTotals :
         run' = IF ~ok THEN [run EXCEPT !.pc = "fetched", !.cause = "adapter"]
                ELSE IF total_count = 0 THEN [run EXCEPT !.pc = "fetched"]
                ELSE [run EXCEPT !.pc = "paging", !.total = total_count]
    /\ UNCHANGED crawlvars
    /\ UNCHANGED advars
    /\ UNCHANGED <<cfg, dataset, jobs, tbl, s3, now, dlq, dispatched, sds, stbl, pw, syncs, hist>>

\* ArcGISAdapter.download_paged: one pass of "while offset < total_count".
\* The page is written to the file, or is empty (break), or _request raised.
adapter_download_paged_page ==
    /\ run.pc = "paging"
    /\ \E outcome \in {"features", "empty", "error"} :
         LET sent == [run EXCEPT !.late = @ + IF JobCancelled(run.job) THEN 1 ELSE 0]
             offset == run.n + Min(page_size, run.total - run.n)
         IN run' = IF outcome = "error"
                   THEN [sent EXCEPT !.pc = "fetched", !.cause = "adapter"]
                   ELSE IF outcome = "empty" THEN [sent EXCEPT !.pc = "fetched"]
                   ELSE [sent EXCEPT !.n = offset,
                                     !.pc = IF offset < run.total THEN "paging"
                                            ELSE "fetched"]
    /\ UNCHANGED crawlvars
    /\ UNCHANGED advars
    /\ UNCHANGED <<cfg, dataset, jobs, tbl, s3, now, dlq, dispatched, sds, stbl, pw, syncs, hist>>

\* The checks of download_and_cache on the adapter's result: a failed result
\* or zero features raise; otherwise the backend is chosen and the cache flags
\* are set on the session's Dataset object.
download_and_cache_fetch ==
    /\ run.pc = "fetched"
    /\ LET ok == run.cause # "adapter"
           n == run.n
       IN
         IF ~ok \/ n = 0
         THEN /\ run' = [run EXCEPT !.pc = "raise",
                                    !.cause = IF ok THEN "zero_features" ELSE "adapter"]
              /\ UNCHANGED sds
         ELSE LET use_object_storage == should_use_object_storage(sds, n) IN
              /\ run' = [run EXCEPT !.n = n,
                                    !.pc = IF use_object_storage THEN "s3_store" ELSE "pg_store"]
              /\ sds' = [sds EXCEPT !.is_cached = TRUE,
                                    !.cached_at = now,
                                    !.storage_format =
                                        IF use_object_storage THEN "geoparquet" ELSE "postgis",
                                    !.use_s3_storage =
                                        IF use_object_storage THEN sds.use_s3_storage ELSE FALSE]
    /\ UNCHANGED crawlvars
    /\ UNCHANGED advars
    /\ UNCHANGED <<cfg, dataset, jobs, tbl, s3, now, dlq, dispatched, stbl, pw, syncs, hist>>

\* ---------------------------------------------------------------------------
\* PostGISStorageBackend._store_in_postgis_streaming (storage/backend.py)

\* DROP TABLE IF EXISTS, CREATE TABLE; with a job, stage "storing" is committed.
store_in_postgis_create ==
    /\ run.pc = "pg_store"
    /\ stbl' = [exists |-> TRUE, rows |-> 0, indexed |-> FALSE, src |-> run.n, by |-> run.attempt]
    /\ run' = [run EXCEPT !.pc = "pg_loop"]
    /\ IF HasJob
       THEN /\ jobs' = [jobs EXCEPT ![run.job].current_stage = "storing"]
            /\ sds' = sds
            /\ Commit
       ELSE UNCHANGED <<jobs, sds, dataset, tbl>>
    /\ UNCHANGED crawlvars
    /\ UNCHANGED advars
    /\ UNCHANGED <<cfg, s3, now, dlq, dispatched, pw, syncs, hist>>

\* Variant of the cancellation branch that returns without DROP TABLE.
store_in_postgis_cancelled_keeps_table ==
    /\ run.pc = "pg_loop"
    /\ run.count < run.n
    /\ JobCancelled(run.job)
    /\ stbl' = stbl
    /\ sds' = sds
    /\ Commit
    /\ run' = [run EXCEPT !.pc = "pg_returned", !.cancelled = TRUE]
    /\ hist' = [hist EXCEPT !.observed = @ \cup {run.attempt}]
    /\ UNCHANGED crawlvars
    /\ UNCHANGED advars
    /\ UNCHANGED <<cfg, jobs, s3, now, dlq, dispatched, pw, syncs>>

\* Cancellation seen at a batch boundary (feature_count % 1000 == 0): drop
\* the table, commit, return the count so far.
store_in_postgis_cancelled ==
    /\ run.pc = "pg_loop"
    /\ run.count < run.n
    /\ JobCancelled(run.job)
    /\ stbl' = NoTable
    /\ sds' = sds
    /\ Commit
    /\ run' = [run EXCEPT !.pc = "pg_returned", !.cancelled = TRUE]
    /\ hist' = [hist EXCEPT !.observed = @ \cup {run.attempt}]
    /\ UNCHANGED crawlvars
    /\ UNCHANGED advars
    /\ UNCHANGED <<cfg, jobs, s3, now, dlq, dispatched, pw, syncs>>

\* The next features are read into the batch; a full batch is inserted and,
\* with a job, the progress is committed.  Reading the next features from
\* the file or _insert_batch may raise.
store_in_postgis_batch ==
    /\ run.pc = "pg_loop"
    /\ run.count < run.n
    /\ ~JobCancelled(run.job)
    /\ LET k == Min(batch_size, run.n - run.count)
           c == run.count + k
       IN IF k < batch_size
          THEN /\ run' = [run EXCEPT !.count = c]
               /\ UNCHANGED <<stbl, sds, jobs, dataset, tbl>>
          ELSE \E ok \in BOOLEAN :
               IF ~ok
               THEN /\ run' = [run EXCEPT !.count = c, !.pc = "raise", !.cause = "storage"]
                    /\ UNCHANGED <<stbl, sds, jobs, dataset, tbl>>
               ELSE /\ run' = [run EXCEPT !.count = c]
                    /\ stbl' = [stbl EXCEPT !.rows = @ + k]
                    /\ IF HasJob
                       THEN /\ jobs' = [jobs EXCEPT
                                  ![run.job].total_features = IF @ = NULL THEN c ELSE @,
                                  ![run.job].features_stored = c]
                            /\ sds' = sds
                            /\ Commit
                       ELSE UNCHANGED <<sds, jobs, dataset, tbl>>
    /\ UNCHANGED crawlvars
    /\ UNCHANGED advars
    /\ UNCHANGED <<cfg, s3, now, dlq, dispatched, pw, syncs, hist>>

\* After the loop: the remaining features are inserted and, with a job, the
\* final counts are committed.
store_in_postgis_remaining ==
    /\ run.pc = "pg_loop"
    /\ run.count = run.n
    /\ LET rem == run.n % batch_size IN
       \E ok \in BOOLEAN :
         IF rem # 0 /\ ~ok
         THEN /\ run' = [run EXCEPT !.pc = "raise", !.cause = "storage"]
              /\ UNCHANGED <<stbl, sds, jobs, dataset, tbl>>
         ELSE /\ run' = [run EXCEPT !.pc = "pg_index"]
              /\ stbl' = [stbl EXCEPT !.rows = @ + rem]
              /\ IF HasJob
                 THEN /\ jobs' = [jobs EXCEPT ![run.job].total_features = run.count,
                                              ![run.job].features_stored = run.count]
                      /\ sds' = sds
                      /\ Commit
                 ELSE UNCHANGED <<sds, jobs, dataset, tbl>>
    /\ UNCHANGED crawlvars
    /\ UNCHANGED advars
    /\ UNCHANGED <<cfg, s3, now, dlq, dispatched, pw, syncs, hist>>

\* With a job, stage "indexing" is committed.
store_in_postgis_indexing ==
    /\ run.pc = "pg_index"
    /\ run' = [run EXCEPT !.pc = "pg_create_index"]
    /\ IF HasJob
       THEN /\ jobs' = [jobs EXCEPT ![run.job].current_stage = "indexing"]
            /\ UNCHANGED <<sds, stbl>>
            /\ Commit
       ELSE UNCHANGED <<sds, stbl, jobs, dataset, tbl>>
    /\ UNCHANGED crawlvars
    /\ UNCHANGED advars
    /\ UNCHANGED <<cfg, s3, now, dlq, dispatched, pw, syncs, hist>>

\* CREATE INDEX ... USING GIST, commit, return the feature count.  The
\* statement raises when the table already carries an index of that name.
store_in_postgis_create_index ==
    /\ run.pc = "pg_create_index"
    /\ IF stbl.indexed
       THEN /\ run' = [run EXCEPT !.pc = "raise", !.cause = "storage"]
            /\ UNCHANGED <<stbl, sds, dataset, tbl>>
       ELSE /\ stbl' = [stbl EXCEPT !.indexed = TRUE]
            /\ sds' = sds
            /\ Commit
            /\ run' = [run EXCEPT !.pc = "pg_returned"]
    /\ UNCHANGED crawlvars
    /\ UNCHANGED advars
    /\ UNCHANGED <<cfg, jobs, s3, now, dlq, dispatched, pw, syncs, hist>>

\* download_and_cache after PostGISStorageBackend.store_dataset returned:
\* the cache table name is written to the Dataset and committed.
download_and_cache_postgis_done ==
    /\ run.pc = "pg_returned"
    /\ sds' = [sds EXCEPT !.cache_table = CacheTableName,
                          !.feature_count = IF run.count # 0 THEN run.count ELSE @]
    /\ stbl' = stbl
    /\ Commit
    /\ run' = [run EXCEPT !.pc = "returned"]
    /\ UNCHANGED crawlvars
    /\ UNCHANGED advars
    /\ UNCHANGED <<cfg, jobs, s3, now, dlq, dispatched, pw, syncs, hist>>


\* ---------------------------------------------------------------------------
\* S3StorageBackend.store_dataset (storage/backend.py)

\* With a job, stage "uploading" is committed.
s3_store_begin ==
    /\ run.pc = "s3_store"
    /\ run' = [run EXCEPT !.pc = "s3_landing"]
    /\ IF HasJob
       THEN /\ jobs' = [jobs EXCEPT ![run.job].current_stage = "uploading"]
            /\ UNCHANGED <<sds, stbl>>
            /\ Commit
       ELSE UNCHANGED <<sds, stbl, jobs, dataset, tbl>>
    /\ UNCHANGED crawlvars
    /\ UNCHANGED advars
    /\ UNCHANGED <<cfg, s3, now, dlq, dispatched, pw, syncs, hist>>

\* Upload of the GeoJSON to landing/<job or dataset>/data.geojson.
s3_store_landing ==
    /\ run.pc = "s3_landing"
    /\ \E ok \in BOOLEAN :
         IF ~ok
         THEN /\ run' = [run EXCEPT !.pc = "raise", !.cause = "storage"]
              /\ UNCHANGED <<s3, sds, stbl, jobs, dataset, tbl>>
         ELSE /\ run' = [run EXCEPT !.pc = "s3_parquet"]
              /\ s3' = [s3 EXCEPT !.landing = run.attempt]
              /\ IF HasJob
                 THEN /\ jobs' = [jobs EXCEPT ![run.job].current_stage = "converting_parquet"]
                      /\ UNCHANGED <<sds, stbl>>
                      /\ Commit
                 ELSE UNCHANGED <<sds, stbl, jobs, dataset, tbl>>
    /\ UNCHANGED crawlvars
    /\ UNCHANGED advars
    /\ UNCHANGED <<cfg, now, dlq, dispatched, pw, syncs, hist>>

\* Conversion to GeoParquet and upload of datasets/<id>/data.parquet.
s3_store_parquet ==
    /\ run.pc = "s3_parquet"
    /\ \E ok \in BOOLEAN :
         IF ~ok
         THEN /\ run' = [run EXCEPT !.pc = "raise", !.cause = "storage"]
              /\ UNCHANGED <<s3, sds, stbl, jobs, dataset, tbl>>
         ELSE /\ run' = [run EXCEPT !.pc = "s3_tiles"]
              /\ s3' = [s3 EXCEPT !.data = run.attempt]
              /\ IF HasJob
                 THEN /\ jobs' = [jobs EXCEPT ![run.job].current_stage = "generating_tiles"]
                      /\ UNCHANGED <<sds, stbl>>
                      /\ Commit
                 ELSE UNCHANGED <<sds, stbl, jobs, dataset, tbl>>
    /\ UNCHANGED crawlvars
    /\ UNCHANGED advars
    /\ UNCHANGED <<cfg, now, dlq, dispatched, pw, syncs, hist>>

\* Tile generation, upload of datasets/<id>/tiles.pmtiles, deletion of the
\* landing object; on return download_and_cache records the data key.
s3_store_tiles ==
    /\ run.pc = "s3_tiles"
    /\ \E ok \in BOOLEAN :
         IF ~ok
         THEN /\ run' = [run EXCEPT !.pc = "raise", !.cause = "storage"]
              /\ UNCHANGED <<s3, sds>>
         ELSE /\ run' = [run EXCEPT !.pc = "dac_tiles"]
              /\ s3' = [s3 EXCEPT !.tiles = run.attempt, !.landing = NULL]
              /\ sds' = [sds EXCEPT !.use_s3_storage = TRUE,
                                    !.s3_data_key = DataKey,
                                    !.feature_count = run.n]
    /\ UNCHANGED crawlvars
    /\ UNCHANGED advars
    /\ UNCHANGED <<cfg, dataset, jobs, tbl, now, dlq, dispatched, stbl, pw, syncs, hist>>

\* download_and_cache generates the tiles again, uploads them, records the
\* tiles key and commits.
download_and_cache_tiles ==
    /\ run.pc = "dac_tiles"
    /\ \E ok \in BOOLEAN :
         IF ~ok
         THEN /\ run' = [run EXCEPT !.pc = "raise", !.cause = "storage"]
              /\ UNCHANGED <<s3, sds, stbl, dataset, tbl>>
         ELSE /\ run' = [run EXCEPT !.pc = "returned"]
              /\ s3' = [s3 EXCEPT !.tiles = run.attempt]
              /\ sds' = [sds EXCEPT !.s3_tiles_key = TilesKey]
              /\ stbl' = stbl
              /\ Commit
    /\ UNCHANGED crawlvars
    /\ UNCHANGED advars
    /\ UNCHANGED <<cfg, jobs, now, dlq, dispatched, pw, syncs, hist>>

\* ---------------------------------------------------------------------------
\* End of the task (tasks/download.py) or of the synchronous request

\* download_and_cache returned: the task writes Completed and commits.
task_completed ==
    /\ run.pc = "returned"
    /\ HasJob
    /\ jobs' = [jobs EXCEPT ![run.job].status = "completed",
                            ![run.job].completed_at = now,
                            ![run.job].current_stage = "complete"]
    /\ run' = IdleRun
    /\ UNCHANGED crawlvars
    /\ UNCHANGED advars
    /\ UNCHANGED <<cfg, dataset, tbl, s3, now, dlq, dispatched, sds, stbl, pw, syncs, hist>>

\* download_and_cache raised: the handler writes Failed and commits the
\* session, with whatever the session still holds.
task_failed ==
    /\ run.pc = "raise"
    /\ HasJob
    /\ jobs' = [jobs EXCEPT ![run.job].status = "failed",
                            ![run.job].completed_at = now,
                            ![run.job].current_stage = "failed",
                            ![run.job].error = TRUE]
    /\ UNCHANGED <<sds, stbl>>
    /\ Commit
    /\ run' = IdleRun
    /\ UNCHANGED crawlvars
    /\ UNCHANGED advars
    /\ UNCHANGED <<cfg, s3, now, dlq, dispatched, pw, syncs, hist>>

\* task_time_limit = 3600: the worker's pool process running the task is
\* killed. No handler of the task runs; the connection is lost, so the
\* session's uncommitted writes are rolled back; the message is acknowledged
\* (acks on failure or timeout) and is not delivered again.
task_time_limit_exceeded ==
    /\ HasJob
    /\ run.pc # "idle"
    /\ run' = IdleRun
    /\ sds' = dataset
    /\ stbl' = tbl
    /\ hist' = [hist EXCEPT !.killed = @ \cup {run.job}]
    /\ UNCHANGED crawlvars
    /\ UNCHANGED advars
    /\ UNCHANGED <<cfg, dataset, jobs, tbl, s3, now, dlq, dispatched, pw, syncs>>

\* The synchronous request ends: response on return, HTTP 500 on raise; the
\* request's session is closed, which discards uncommitted writes.
sync_request_end ==
    /\ run.pc \in {"returned", "raise"}
    /\ ~HasJob
    /\ run' = IdleRun
    /\ sds' = dataset
    /\ stbl' = tbl
    /\ UNCHANGED crawlvars
    /\ UNCHANGED advars
    /\ UNCHANGED <<cfg, dataset, jobs, tbl, s3, now, dlq, dispatched, pw, syncs, hist>>

\* ---------------------------------------------------------------------------
\* Polling DownloadWorker (workers/download_worker.py)

\* _process_pending_jobs: the list of Pending jobs is read once.
worker_poll ==
    /\ pw.pending = {} /\ pw.cur = 0
    /\ \E j \in JobIds : jobs[j].status = "pending"
    /\ pw' = [pw EXCEPT !.pending = {j \in JobIds : jobs[j].status = "pending"}]
    /\ UNCHANGED crawlvars
    /\ UNCHANGED advars
    /\ UNCHANGED <<cfg, dataset, jobs, tbl, s3, now, dlq, dispatched, run, sds, stbl, syncs, hist>>

\* _process_job: Running and started_at are committed for the next listed job.
worker_process_job(j) ==
    /\ pw.cur = 0
    /\ j \in pw.pending
    /\ pw' = [pending |-> pw.pending \ {j}, cur |-> j]
    /\ jobs' = [jobs EXCEPT ![j].status = "running", ![j].started_at = now]
    /\ UNCHANGED crawlvars
    /\ UNCHANGED advars
    /\ UNCHANGED <<cfg, dataset, tbl, s3, now, dlq, dispatched, run, sds, stbl, syncs, hist>>

\* adapter.download_dataset() does not exist on ArcGISAdapter: the call
\* raises, the handler rolls back and commits Failed with the error.
worker_job_failed ==
    /\ pw.cur # 0
    /\ jobs' = [jobs EXCEPT ![pw.cur].status = "failed",
                            ![pw.cur].error = TRUE,
                            ![pw.cur].completed_at = now]
    /\ pw' = [pw EXCEPT !.cur = 0]
    /\ UNCHANGED crawlvars
    /\ UNCHANGED advars
    /\ UNCHANGED <<cfg, dataset, tbl, s3, now, dlq, dispatched, run, sds, stbl, syncs, hist>>

\* ---------------------------------------------------------------------------
\* Reader: what DownloadService.get_cached_geojson finds for the committed rows

get_cached_geojson ==
    IF ~dataset.is_cached THEN "not_cached"
    ELSE IF dataset.use_s3_storage /\ dataset.s3_data_key # NoName
         THEN IF s3.data = NULL THEN "missing_object" ELSE "object"
    ELSE IF dataset.cache_table # NoName
         THEN IF ~tbl.exists THEN "missing_table"
              ELSE IF tbl.indexed /\ tbl.rows = tbl.src THEN "complete_table"
              ELSE "partial_table"
    ELSE "no_storage_metadata"

\* ---------------------------------------------------------------------------

ApiSteps ==
    \/ \E j \in JobIds : download_datasets_queue(j)
    \/ \E j \in JobIds : insert_pending_job(j)
    \/ \E j \in JobIds : dispatch_download_job(j)
    \/ \E j \in JobIds : cancel_download_job(j)
    \/ download_datasets_sync
    \/ sync_request_end

TaskSteps ==
    \/ \E j \in JobIds : process_download_job(j)
    \/ \E j \in JobIds : download_chunked(j)
    \/ \E j \in JobIds : download_simple(j)
    \/ \E j \in JobIds : download_paged(j)
    \/ adapter_download_paged_count
    \/ adapter_download_paged_page
    \/ task_time_limit_exceeded
    \/ download_and_cache_fetch
    \/ task_completed
    \/ task_failed

PostgisSteps ==
    \/ store_in_postgis_create
    \/ store_in_postgis_cancelled
    \/ store_in_postgis_batch
    \/ store_in_postgis_remaining
    \/ store_in_postgis_indexing
    \/ store_in_postgis_create_index
    \/ download_and_cache_postgis_done

ObjectStoreSteps ==
    \/ s3_store_begin
    \/ s3_store_landing
    \/ s3_store_parquet
    \/ s3_store_tiles
    \/ download_and_cache_tiles

WorkerSteps ==
    \/ worker_poll
    \/ \E j \in JobIds : worker_process_job(j)
    \/ worker_job_failed

DlSteps == ApiSteps \/ TaskSteps \/ PostgisSteps \/ ObjectStoreSteps \/ WorkerSteps

DlNext == DlSteps

\* ===========================================================================
\* Crawl subsystem: trigger_crawl, the Celery tasks of tasks/crawl.py, the
\* polling CrawlWorker, and the status and cancel endpoints.

NoCrawlJob ==
    [status |-> "none", started_at |-> NULL, completed_at |-> NULL,
     current_stage |-> NoName, error |-> FALSE, total_services |-> NoCount,
     services_processed |-> 0, datasets_discovered |-> 0,
     datasets_new |-> 0, datasets_updated |-> 0, celery_task_id |-> FALSE]

NoServer ==
    [health_status |-> "unknown", dataset_count |-> 0,
     active_dataset_count |-> 0, last_crawl |-> NULL]

\* sp, dd: the counters as process_service read them; completed: the task
\* committed its service; tries: the executions of the task so far; failed:
\* the task ended in its except branch.
NoTask == [pc |-> "none", sp |-> 0, dd |-> 0, completed |-> FALSE,
           tries |-> 0, failed |-> FALSE]

\* ins: access URLs of the Dataset objects added to the session and not yet
\* committed; took: the jobs the thread has started to process so far.
IdleCrawlWorker ==
    [pending |-> {}, cur |-> 0, pc |-> "idle", datasets_new |-> 0,
     datasets_updated |-> 0, idx |-> 0, total |-> 0, ins |-> {}, took |-> {}]

\* The commit of the worker's session inserts the rows it added.
Flushed(cat, ins) == [v \in Services |-> cat[v] + IF v \in ins THEN 1 ELSE 0]

\* sync and cancel name the job of a request in progress; code is the HTTP
\* status of the last answer to a cancel request for each job (0: none yet).
NoRequest == [sync |-> 0, cancel |-> 0, code |-> [c \in CrawlIds |-> 0]]

\* Dataset rows that earlier crawls left: one row for each of the first k
\* access URLs.
KnownCatalog(k) == [u \in Services |-> IF u <= k THEN 1 ELSE 0]

CrawlIdle ==
    /\ cjobs = [c \in CrawlIds |-> NoCrawlJob]
    /\ server = NoServer
    /\ pcj = [c \in CrawlIds |-> "none"]
    /\ psv = [c \in CrawlIds |-> [s \in Services |-> NoTask]]
    /\ cw = IdleCrawlWorker
    /\ api = NoRequest
    /\ chist = [c \in CrawlIds |-> [inserted |-> 0, updated |-> 0]]

RECURSIVE RowsUpTo(_, _)
RowsUpTo(cat, u) == IF u = 0 THEN 0 ELSE cat[u] + RowsUpTo(cat, u - 1)

\* db.query(Dataset).filter(geoserver_id == server.id).count(); every row is
\* inserted with is_active = True and no crawl step clears it.
DatasetCount(cat) == RowsUpTo(cat, MaxServices)

\* Rows of access URL u with is_active = True: the column is set at the
\* insert and no statement of the program updates it.
ActiveRows(u) == catalog[u]

\* Celery task state of crawl.process_server as AsyncResult(...).state shows it.
celery_state(c) ==
    CASE pcj[c] \in {"started", "running"} -> "STARTED"
      [] pcj[c] = "success" -> "SUCCESS"
      [] pcj[c] = "failure" -> "FAILURE"
      [] pcj[c] = "revoked" -> "REVOKED"
      [] OTHER -> "PENDING"

trigger_crawl(c) ==
    /\ cjobs[c].status = "none"
    /\ \A d \in CrawlIds : d < c => cjobs[d].status # "none"
    /\ cjobs' = [cjobs EXCEPT ![c] =
                    [NoCrawlJob EXCEPT !.status = "pending",
                                       !.current_stage = "pending",
                                       !.celery_task_id = use_celery]]
    /\ pcj' = [pcj EXCEPT ![c] = IF use_celery THEN "queued" ELSE @]
    /\ UNCHANGED dlvars
    /\ UNCHANGED advars
    /\ UNCHANGED <<use_celery, upstream, server, catalog, psv, cw, api, chist>>

\* get_crawl_status and get_latest_crawl_job: the read of the row and of the
\* Celery state.
get_crawl_status(c) ==
    /\ api.sync = 0
    /\ cjobs[c].status # "none"
    /\ use_celery /\ cjobs[c].celery_task_id
    /\ celery_state(c) = "STARTED" /\ cjobs[c].status = "pending"
    /\ api' = [api EXCEPT !.sync = c]
    /\ UNCHANGED dlvars
    /\ UNCHANGED advars
    /\ UNCHANGED <<use_celery, upstream, cjobs, server, catalog, pcj, psv, cw, chist>>

\* ... and the commit of the synced status.
get_crawl_status_commit(c) ==
    /\ api.sync = c
    /\ cjobs' = [cjobs EXCEPT ![c].status = "running",
                              ![c].started_at = IF @ = NULL THEN now ELSE @]
    /\ api' = [api EXCEPT !.sync = 0]
    /\ UNCHANGED dlvars
    /\ UNCHANGED advars
    /\ UNCHANGED <<use_celery, upstream, server, catalog, pcj, psv, cw, chist>>

\* cancel_crawl_job: the status check (400 unless Running or Pending).
cancel_crawl_job(c) ==
    /\ api.cancel = 0
    /\ cjobs[c].status \in {"running", "pending"}
    /\ api' = [api EXCEPT !.cancel = c]
    /\ UNCHANGED dlvars
    /\ UNCHANGED advars
    /\ UNCHANGED <<use_celery, upstream, cjobs, server, catalog, pcj, psv, cw, chist>>

\* Variant of the cancel commit that leaves completed_at as it was.
cancel_crawl_job_commit_no_completed_at(c) ==
    /\ api.cancel = c
    /\ cjobs' = [cjobs EXCEPT ![c].status = "cancelled",
                              ![c].current_stage = "cancelled"]
    /\ api' = [api EXCEPT !.cancel = 0, !.code[c] = 200]
    /\ UNCHANGED dlvars
    /\ UNCHANGED advars
    /\ UNCHANGED <<use_celery, upstream, server, catalog, pcj, psv, cw, chist>>

\* ... the revoke(terminate=True) of crawl.process_server, which may or may
\* not reach the worker, and the commit of Cancelled.
cancel_crawl_job_commit(c) ==
    /\ api.cancel = c
    /\ \E reached \in BOOLEAN :
          pcj' = [pcj EXCEPT ![c] =
                    IF use_celery /\ cjobs[c].celery_task_id /\ reached
                       /\ @ \in {"queued", "started", "running"}
                    THEN "revoked" ELSE @]
    /\ cjobs' = [cjobs EXCEPT ![c].status = "cancelled",
                              ![c].completed_at = now,
                              ![c].current_stage = "cancelled"]
    /\ api' = [api EXCEPT !.cancel = 0, !.code[c] = 200]
    /\ UNCHANGED dlvars
    /\ UNCHANGED advars
    /\ UNCHANGED <<use_celery, upstream, server, catalog, psv, cw, chist>>

\* Variant of the rejection that answers 400 after writing Cancelled.
cancel_crawl_job_rejected_after_write(c) ==
    /\ cjobs[c].status \in TerminalStatus
    /\ cjobs' = [cjobs EXCEPT ![c].status = "cancelled",
                              ![c].current_stage = "cancelled"]
    /\ api' = [api EXCEPT !.code[c] = 400]
    /\ UNCHANGED dlvars
    /\ UNCHANGED advars
    /\ UNCHANGED <<use_celery, upstream, server, catalog, pcj, psv, cw, chist>>

\* POST /servers/crawl/{job_id}/cancel for a job that is neither Running nor
\* Pending: HTTPException(400) is raised before anything is written.
cancel_crawl_job_rejected(c) ==
    /\ cjobs[c].status \in TerminalStatus
    /\ api' = [api EXCEPT !.code[c] = 400]
    /\ UNCHANGED dlvars
    /\ UNCHANGED advars
    /\ UNCHANGED <<use_celery, upstream, cjobs, server, catalog, pcj, psv, cw, chist>>

\* A Celery worker takes crawl.process_server: task_track_started marks it
\* STARTED before the body runs.
process_crawl_job_started(c) ==
    /\ pcj[c] = "queued"
    /\ pcj' = [pcj EXCEPT ![c] = "started"]
    /\ UNCHANGED dlvars
    /\ UNCHANGED advars
    /\ UNCHANGED <<use_celery, upstream, cjobs, server, catalog, psv, cw, api, chist>>

process_crawl_job(c) ==
    /\ pcj[c] = "started"
    /\ cjobs' = [cjobs EXCEPT ![c].status = "running",
                              ![c].started_at = now,
                              ![c].current_stage = "discovering_services"]
    /\ pcj' = [pcj EXCEPT ![c] = "running"]
    /\ UNCHANGED dlvars
    /\ UNCHANGED advars
    /\ UNCHANGED <<use_celery, upstream, server, catalog, psv, cw, api, chist>>

\* discover_services returned: the services are dispatched, fire and forget.
process_crawl_job_dispatch(c) ==
    /\ pcj[c] = "running"
    /\ cjobs' = [cjobs EXCEPT ![c].total_services = upstream,
                              ![c].current_stage = "processing_services"]
    /\ psv' = [psv EXCEPT ![c] =
                  [s \in Services |->
                      IF s <= upstream THEN [NoTask EXCEPT !.pc = "queued"]
                      ELSE NoTask]]
    /\ pcj' = [pcj EXCEPT ![c] = "success"]
    /\ UNCHANGED dlvars
    /\ UNCHANGED advars
    /\ UNCHANGED <<use_celery, upstream, server, catalog, cw, api, chist>>

\* discover_services raised.
process_crawl_job_failed(c) ==
    /\ pcj[c] = "running"
    /\ cjobs' = [cjobs EXCEPT ![c].status = "failed",
                              ![c].completed_at = now,
                              ![c].current_stage = "failed",
                              ![c].error = TRUE]
    /\ pcj' = [pcj EXCEPT ![c] = "failure"]
    /\ UNCHANGED dlvars
    /\ UNCHANGED advars
    /\ UNCHANGED <<use_celery, upstream, server, catalog, psv, cw, api, chist>>

\* process_service up to its cancellation check.
process_service(c, s) ==
    /\ psv[c][s].pc = "queued"
    /\ psv' = [psv EXCEPT ![c][s].pc =
                  IF cjobs[c].status = "cancelled" THEN "done" ELSE "discover",
                          ![c][s].tries = @ + 1]
    /\ UNCHANGED dlvars
    /\ UNCHANGED advars
    /\ UNCHANGED <<use_celery, upstream, cjobs, server, catalog, pcj, cw, api, chist>>

\* The layers of the service are upserted and committed.
process_service_upsert(c, s) ==
    /\ psv[c][s].pc = "discover"
    /\ catalog' = [catalog EXCEPT ![s] = IF @ = 0 THEN 1 ELSE @]
    /\ chist' = [chist EXCEPT ![c] =
                    IF catalog[s] = 0 THEN [@ EXCEPT !.inserted = @ + 1]
                    ELSE [@ EXCEPT !.updated = @ + 1]]
    /\ psv' = [psv EXCEPT ![c][s].pc = "progress"]
    /\ UNCHANGED dlvars
    /\ UNCHANGED advars
    /\ UNCHANGED <<use_celery, upstream, cjobs, server, pcj, cw, api>>

\* The adapter raised: rollback, return 0.  The task returns normally, so
\* that Celery records a success and max_retries is never consulted.
process_service_failed(c, s) ==
    /\ psv[c][s].pc = "discover"
    /\ psv' = [psv EXCEPT ![c][s].pc = "done", ![c][s].failed = TRUE]
    /\ UNCHANGED dlvars
    /\ UNCHANGED advars
    /\ UNCHANGED <<use_celery, upstream, cjobs, server, catalog, pcj, cw, api, chist>>

\* job.services_processed += 1 reads the row, expired by the commit before.
process_service_progress(c, s) ==
    /\ psv[c][s].pc = "progress"
    /\ psv' = [psv EXCEPT ![c][s] =
                  [NoTask EXCEPT !.pc = "write", !.tries = psv[c][s].tries,
                                 !.sp = cjobs[c].services_processed,
                                 !.dd = cjobs[c].datasets_discovered]]
    /\ UNCHANGED dlvars
    /\ UNCHANGED advars
    /\ UNCHANGED <<use_celery, upstream, cjobs, server, catalog, pcj, cw, api, chist>>

\* ... and the commit writes the incremented values.
process_service_commit(c, s) ==
    /\ psv[c][s].pc = "write"
    /\ cjobs' = [cjobs EXCEPT ![c].services_processed = psv[c][s].sp + 1,
                              ![c].datasets_discovered = psv[c][s].dd + 1]
    /\ psv' = [psv EXCEPT ![c][s] = [NoTask EXCEPT !.pc = "done", !.completed = TRUE,
                                 !.tries = psv[c][s].tries]]
    /\ UNCHANGED dlvars
    /\ UNCHANGED advars
    /\ UNCHANGED <<use_celery, upstream, server, catalog, pcj, cw, api, chist>>

\* finalize_crawl_job as tasks/crawl.py defines it. No code sends
\* crawl.finalize_job, so it is no step of CrawlNext.
finalize_crawl_job(c) ==
    /\ cjobs[c].status # "none"
    /\ server' = [health_status |-> "healthy", dataset_count |-> DatasetCount(catalog),
                  active_dataset_count |-> DatasetCount(catalog), last_crawl |-> now]
    /\ cjobs' = [cjobs EXCEPT ![c].status = "completed",
                              ![c].completed_at = now,
                              ![c].current_stage = "complete"]
    /\ UNCHANGED dlvars
    /\ UNCHANGED advars
    /\ UNCHANGED <<use_celery, upstream, catalog, pcj, psv, cw, api, chist>>

\* CrawlWorker._process_pending_jobs: the query for Pending jobs.
crawl_worker_poll ==
    /\ cw.pc = "idle" /\ cw.pending = {}
    /\ \E c \in CrawlIds : cjobs[c].status = "pending"
    /\ cw' = [cw EXCEPT !.pending = {c \in CrawlIds : cjobs[c].status = "pending"}]
    /\ UNCHANGED dlvars
    /\ UNCHANGED advars
    /\ UNCHANGED <<use_celery, upstream, cjobs, server, catalog, pcj, psv, api, chist>>

\* CrawlWorker._process_job up to the catalog request.
crawl_worker_process_job(c) ==
    /\ cw.pc = "idle" /\ c \in cw.pending
    /\ cjobs' = [cjobs EXCEPT ![c].status = "running",
                              ![c].started_at = now,
                              ![c].current_stage = "counting_services"]
    /\ cw' = [IdleCrawlWorker EXCEPT !.pending = cw.pending \ {c},
                                     !.cur = c, !.pc = "counting",
                                     !.took = cw.took \cup {c}]
    /\ UNCHANGED dlvars
    /\ UNCHANGED advars
    /\ UNCHANGED <<use_celery, upstream, server, catalog, pcj, psv, api, chist>>

crawl_worker_counted ==
    /\ cw.pc = "counting"
    /\ cjobs' = [cjobs EXCEPT ![cw.cur].total_services = upstream,
                              ![cw.cur].current_stage = "processing_datasets"]
    /\ cw' = [cw EXCEPT !.pc = "loop", !.total = upstream]
    /\ UNCHANGED dlvars
    /\ UNCHANGED advars
    /\ UNCHANGED <<use_celery, upstream, server, catalog, pcj, psv, api, chist>>

ProgressEvery == 10

\* One iteration of the discovery loop: refresh, cancellation check, upsert in
\* the session, progress commit every ProgressEvery datasets.
crawl_worker_dataset ==
    /\ cw.pc = "loop" /\ cw.idx < upstream
    /\ IF cjobs[cw.cur].status = "cancelled"
       THEN /\ cw' = [cw EXCEPT !.pc = "final"]
            /\ UNCHANGED <<cjobs, catalog, chist>>
       ELSE LET u == cw.idx + 1
                existing == catalog[u] > 0
                new == cw.datasets_new + IF existing THEN 0 ELSE 1
                upd == cw.datasets_updated + IF existing THEN 1 ELSE 0
                ins == cw.ins \cup IF existing THEN {} ELSE {u}
            IN /\ chist' = [chist EXCEPT ![cw.cur] =
                              IF existing THEN [@ EXCEPT !.updated = @ + 1]
                              ELSE [@ EXCEPT !.inserted = @ + 1]]
               /\ IF (new + upd) % ProgressEvery = 0
                  THEN /\ cw' = [cw EXCEPT !.idx = u, !.datasets_new = new,
                                           !.datasets_updated = upd, !.ins = {}]
                       /\ catalog' = Flushed(catalog, ins)
                       /\ cjobs' = [cjobs EXCEPT
                              ![cw.cur].datasets_discovered = new + upd,
                              ![cw.cur].datasets_new = new,
                              ![cw.cur].datasets_updated = upd,
                              ![cw.cur].services_processed =
                                  Min((new + upd) \div 5, cw.total)]
                  ELSE /\ cw' = [cw EXCEPT !.idx = u, !.datasets_new = new,
                                           !.datasets_updated = upd, !.ins = ins]
                       /\ UNCHANGED <<cjobs, catalog>>
    /\ UNCHANGED dlvars
    /\ UNCHANGED advars
    /\ UNCHANGED <<use_celery, upstream, server, pcj, psv, api>>

\* The final update after the loop ended or was left by break.
crawl_worker_final ==
    /\ \/ cw.pc = "loop" /\ cw.idx = upstream
       \/ cw.pc = "final"
    /\ catalog' = Flushed(catalog, cw.ins)
    /\ cjobs' = [cjobs EXCEPT
          ![cw.cur].datasets_discovered = cw.datasets_new + cw.datasets_updated,
          ![cw.cur].datasets_new = cw.datasets_new,
          ![cw.cur].datasets_updated = cw.datasets_updated,
          ![cw.cur].services_processed = cw.total,
          ![cw.cur].status = "completed",
          ![cw.cur].completed_at = now,
          ![cw.cur].current_stage = "complete"]
    /\ server' = [health_status |-> "healthy",
                  dataset_count |-> DatasetCount(catalog'),
                  active_dataset_count |-> DatasetCount(catalog'),
                  last_crawl |-> now]
    /\ cw' = [IdleCrawlWorker EXCEPT !.pending = cw.pending, !.took = cw.took]
    /\ UNCHANGED dlvars
    /\ UNCHANGED advars
    /\ UNCHANGED <<use_celery, upstream, pcj, psv, api, chist>>

\* A request of the adapter raised: the server goes Offline with the commit
\* of the session, then _process_pending_jobs rolls back and writes Failed.
crawl_worker_failed ==
    /\ cw.pc \in {"counting", "loop"}
    /\ cw.pc = "loop" => cw.idx < upstream
    /\ catalog' = Flushed(catalog, cw.ins)
    /\ server' = [server EXCEPT !.health_status = "offline"]
    /\ cjobs' = [cjobs EXCEPT ![cw.cur].status = "failed",
                              ![cw.cur].error = TRUE,
                              ![cw.cur].completed_at = now,
                              ![cw.cur].current_stage = "failed"]
    /\ cw' = [IdleCrawlWorker EXCEPT !.pending = cw.pending, !.took = cw.took]
    /\ UNCHANGED dlvars
    /\ UNCHANGED advars
    /\ UNCHANGED <<use_celery, upstream, pcj, psv, api, chist>>

CrawlApiSteps ==
    \/ \E c \in CrawlIds : trigger_crawl(c)
    \/ \E c \in CrawlIds : get_crawl_status(c)
    \/ \E c \in CrawlIds : get_crawl_status_commit(c)
    \/ \E c \in CrawlIds : cancel_crawl_job(c)
    \/ \E c \in CrawlIds : cancel_crawl_job_commit(c)

CrawlTaskSteps ==
    \/ \E c \in CrawlIds : process_crawl_job_started(c)
    \/ \E c \in CrawlIds : process_crawl_job(c)
    \/ \E c \in CrawlIds : process_crawl_job_dispatch(c)
    \/ \E c \in CrawlIds : process_crawl_job_failed(c)
    \/ \E c \in CrawlIds, s \in Services : process_service(c, s)
    \/ \E c \in CrawlIds, s \in Services : process_service_upsert(c, s)
    \/ \E c \in CrawlIds, s \in Services : process_service_failed(c, s)
    \/ \E c \in CrawlIds, s \in Services : process_service_progress(c, s)
    \/ \E c \in CrawlIds, s \in Services : process_service_commit(c, s)

CrawlWorkerSteps ==
    \/ crawl_worker_poll
    \/ \E c \in CrawlIds : crawl_worker_process_job(c)
    \/ crawl_worker_counted
    \/ crawl_worker_dataset
    \/ crawl_worker_final
    \/ crawl_worker_failed

CrawlSteps == CrawlApiSteps \/ CrawlTaskSteps \/ CrawlWorkerSteps

\* Every configuration of the storage selector; no crawl is triggered.
Init ==
    /\ DlInit
    /\ use_celery = TRUE /\ upstream = 0
    /\ catalog = KnownCatalog(0)
    /\ CrawlIdle
    /\ ad = NoCall
    /\ peer = NoPeer

Next == DlNext

Spec == Init /\ [][Next]_vars

\* Deployment with STORAGE_BACKEND=postgis: the object store is never chosen.
PostgisInit == Init /\ cfg.STORAGE_BACKEND = "postgis"

\* Celery downloads of a simple or paged dataset into the spatial database:
\* Pending jobs are dispatched, run by the download tasks and cancelled by
\* clients at any moment.
StoreInit ==
    /\ PostgisInit
    /\ dataset.download_strategy \in {"simple", "paged"}

StoreNext ==
    \/ \E j \in JobIds : insert_pending_job(j)
    \/ \E j \in JobIds : dispatch_download_job(j)
    \/ \E j \in JobIds : cancel_download_job(j)
    \/ \E j \in JobIds : process_download_job(j)
    \/ \E j \in JobIds : download_simple(j)
    \/ \E j \in JobIds : download_paged(j)
    \/ adapter_download_paged_count
    \/ adapter_download_paged_page
    \/ download_and_cache_fetch
    \/ task_completed
    \/ task_failed
    \/ PostgisSteps

StoreSpec == StoreInit /\ [][StoreNext]_vars

\* A Dataset row as an earlier download left it under the PostGIS backend
\* (services/download.py:271-291) or under object storage (189-263).
CachedInPostgis ==
    [NoDataset EXCEPT !.is_cached = TRUE, !.cached_at = 1,
                      !.storage_format = "postgis",
                      !.cache_table = CacheTableName,
                      !.feature_count = batch_size]

CachedInObjectStorage ==
    [NoDataset EXCEPT !.is_cached = TRUE, !.cached_at = 1,
                      !.storage_format = "geoparquet",
                      !.use_s3_storage = TRUE,
                      !.s3_data_key = DataKey, !.s3_tiles_key = TilesKey,
                      !.feature_count = batch_size]

\* Re-download: the dataset was cached by an earlier download, the service
\* now runs with any storage settings, and the dataset is downloaded again
\* through the synchronous branch of POST /download (force_refresh).
ReloadInit ==
    /\ cfg \in [STORAGE_BACKEND : {"hybrid", "postgis", "object_storage"},
                USE_OBJECT_STORAGE_FOR_LARGE_DATASETS : BOOLEAN]
    /\ \/ /\ dataset = CachedInPostgis
          /\ tbl = [exists |-> TRUE, rows |-> batch_size, indexed |-> TRUE,
                    src |-> batch_size, by |-> 1]
          /\ s3 = [landing |-> NULL, data |-> NULL, tiles |-> NULL]
       \/ /\ dataset = CachedInObjectStorage
          /\ tbl = NoTable
          /\ s3 = [landing |-> NULL, data |-> 1, tiles |-> 1]
    /\ jobs = [j \in JobIds |-> NoJob]
    /\ now = 1
    /\ dlq = {}
    /\ dispatched = {}
    /\ run = IdleRun
    /\ sds = dataset
    /\ stbl = tbl
    /\ pw = [pending |-> {}, cur |-> 0]
    /\ syncs = 0
    /\ hist = [flip |-> [j \in JobIds |-> "none"], observed |-> {},
               code |-> [j \in JobIds |-> 0], killed |-> {}]
    /\ use_celery = TRUE
    /\ upstream = 0
    /\ catalog = KnownCatalog(0)
    /\ CrawlIdle
    /\ ad = NoCall
    /\ peer = NoPeer

ReloadNext ==
    \/ download_datasets_sync
    \/ adapter_download_paged_count
    \/ adapter_download_paged_page
    \/ download_and_cache_fetch
    \/ store_in_postgis_create
    \/ store_in_postgis_batch
    \/ store_in_postgis_remaining
    \/ store_in_postgis_indexing
    \/ store_in_postgis_create_index
    \/ download_and_cache_postgis_done
    \/ ObjectStoreSteps
    \/ sync_request_end

ReloadSpec == ReloadInit /\ [][ReloadNext]_vars

\* Crawls of one server, with and without Celery; no download is requested.
CrawlInit ==
    /\ DlInit
    /\ cfg = [STORAGE_BACKEND |-> "postgis",
              USE_OBJECT_STORAGE_FOR_LARGE_DATASETS |-> FALSE]
    /\ dataset.download_strategy = "simple"
    /\ use_celery \in BOOLEAN
    /\ upstream \in 0..MaxServices
    /\ \E k \in 0..MaxServices : catalog = KnownCatalog(k)
    /\ CrawlIdle
    /\ ad = NoCall
    /\ peer = NoPeer

CrawlNext == CrawlSteps

CrawlSpec == CrawlInit /\ [][CrawlNext]_vars

\* Celery workers run every queued task and every started task body runs on;
\* the polling thread loops for as long as the API process lives. Requests of
\* clients (trigger, status, cancel) are under no obligation.
CrawlFairness ==
    /\ \A c \in CrawlIds :
          /\ WF_vars(process_crawl_job_started(c))
          /\ WF_vars(process_crawl_job(c))
          /\ WF_vars((process_crawl_job_dispatch(c) \/ process_crawl_job_failed(c)))
          /\ WF_vars(crawl_worker_process_job(c))
          /\ \A s \in Services :
                /\ WF_vars(process_service(c, s))
                /\ WF_vars((process_service_upsert(c, s) \/ process_service_failed(c, s)))
                /\ WF_vars(process_service_progress(c, s))
                /\ WF_vars(process_service_commit(c, s))
    /\ WF_vars(crawl_worker_poll)
    /\ WF_vars(crawl_worker_counted)
    /\ WF_vars(crawl_worker_dataset)
    /\ WF_vars(crawl_worker_final)

CrawlFairSpec == CrawlSpec /\ CrawlFairness

\* Cancel requests against jobs of both kinds in every status: the jobs are
\* created, picked up by Celery or by the polling workers, completed or
\* failed, and cancel requests arrive in between. The service tasks and the
\* download itself are left out; they do not take part in a cancel request.
CancelInit ==
    /\ CrawlInit
    /\ upstream = 0
    /\ catalog = KnownCatalog(0)

CancelNext ==
    \/ \E c \in CrawlIds : trigger_crawl(c)
    \/ \E c \in CrawlIds : cancel_crawl_job(c)
    \/ \E c \in CrawlIds : cancel_crawl_job_commit(c)
    \/ \E c \in CrawlIds : cancel_crawl_job_rejected(c)
    \/ \E c \in CrawlIds : process_crawl_job_started(c)
    \/ \E c \in CrawlIds : process_crawl_job(c)
    \/ \E c \in CrawlIds : process_crawl_job_failed(c)
    \/ crawl_worker_poll
    \/ \E c \in CrawlIds : crawl_worker_process_job(c)
    \/ crawl_worker_counted
    \/ crawl_worker_final
    \/ crawl_worker_failed
    \/ \E j \in JobIds : insert_pending_job(j)
    \/ \E j \in JobIds : cancel_download_job(j)
    \/ \E j \in JobIds : cancel_download_job_rejected(j)

CancelSpec == CancelInit /\ [][CancelNext]_vars


\* ===========================================================================
\* Claims

\* C1: terminal states are sinks for download jobs: once a DownloadJob is
\* Completed, Failed or Cancelled, no step of any worker changes its status.
C1_TerminalStatesAreSinks ==
    [][\A j \in JobIds :
          jobs[j].status \in TerminalStatus => jobs'[j].status = jobs[j].status]_vars

\* C2: Cancelled is final for a CrawlJob: once its row is Cancelled, no step of
\* the crawl tasks, the polling worker or the status endpoints writes another
\* status.
C2_CrawlCancelledIsFinal ==
    [][\A c \in CrawlIds :
          cjobs[c].status = "cancelled" => cjobs'[c].status = "cancelled"]_vars

\* C3: if a DownloadJob is flipped to Cancelled while its features are being
\* stored, then when the download task ends the Dataset row has
\* is_cached = false and names no cache table or object key written by that job.
C3_NoCacheAfterCancelledStore ==
    [][(HasJob /\ run'.pc = "idle" /\ hist.flip[run.job] = "storing")
          => /\ ~dataset'.is_cached
             /\ dataset'.cache_table = NoName \/ tbl'.by # run.attempt
             /\ dataset'.s3_data_key = NoName \/ s3'.data # run.attempt]_vars

\* C4: once the spatial-DB store has seen its job Cancelled at a batch
\* boundary, no cache table of that attempt exists, committed or in the
\* session, with no rows and no index, and the job's stored count stops.
C4_CancelledStoreLeavesNoTable ==
    /\ \A a \in hist.observed :
          /\ ~(tbl.exists /\ tbl.by = a)
          /\ ~(stbl.exists /\ stbl.by = a)
    /\ run.cancelled =>
          /\ tbl = NoTable /\ stbl = NoTable
          /\ jobs[run.job].features_stored = run.count
          /\ jobs[run.job].current_stage \notin {"indexing"}

\* C4 witness: the cancellation was seen between the first and the second batch.
C4_Witness ==
    /\ run.cancelled
    /\ run.count = batch_size
    /\ run.count < run.n
    /\ jobs[run.job].features_stored = batch_size

\* C5: in every committed state, is_cached holds iff (cache_table or
\* s3_data_key is set) and cached_at is set.
C5_CachedIffStored ==
    dataset.is_cached <=>
        ((dataset.cache_table # NoName \/ dataset.s3_data_key # NoName)
         /\ dataset.cached_at # NULL)

\* C6: whenever the committed Dataset row has is_cached = true and names a
\* cache table, that table exists and holds the complete, indexed feature set.
C6_ReadersSeeCompleteTable ==
    (dataset.is_cached /\ dataset.cache_table # NoName)
        => (tbl.exists /\ tbl.indexed /\ tbl.rows = tbl.src)

\* C7: if download_and_cache raises, the committed Dataset row is the same as
\* before the attempt, also after the failure handler committed the job.
C7_DatasetUnchangedOnFailure ==
    [][/\ run'.pc = "raise" => dataset' = run'.before
       /\ (run.pc = "raise" /\ run'.pc = "idle") => dataset' = run.before]_vars

\* C8: when the storage backend failed mid-write, at the moment the job is
\* marked Failed no partial cache table and no landing, data.parquet or
\* tiles.pmtiles object of that attempt remains.
C8_PartialArtifactsCleaned ==
    [][(run.pc = "raise" /\ run.cause = "storage" /\ HasJob
        /\ jobs'[run.job].status = "failed" /\ run'.pc = "idle")
          => /\ ~(tbl'.exists /\ tbl'.by = run.attempt)
             /\ s3'.landing # run.attempt
             /\ s3'.data # run.attempt
             /\ s3'.tiles # run.attempt]_vars

\* C9: every CrawlJob that process_crawl_job picked up and whose discovery
\* succeeded is eventually finalized: it reaches Completed with the server
\* Healthy and counted, unless a client cancelled it.
C9_DiscoveredCrawlIsFinalized ==
    \A c \in CrawlIds :
        (pcj[c] = "success")
            ~> \/ /\ cjobs[c].status = "completed"
                  /\ server.health_status = "healthy"
                  /\ server.dataset_count = DatasetCount(catalog)
               \/ cjobs[c].status = "cancelled"

\* C10: a task that starts for a job already Cancelled ends without side
\* effects: process_download_job, process_crawl_job and process_service leave
\* the job row as it is, send no task and write no Dataset or Server row.
C10_CancelledJobTaskIsNoOp ==
    [][/\ \A j \in JobIds :
            (jobs[j].status = "cancelled"
             /\ <<"download.process_job", j>> \in dlq
             /\ <<"download.process_job", j>> \notin dlq')
                => jobs' = jobs /\ dlq' \subseteq dlq /\ dataset' = dataset
       /\ \A c \in CrawlIds :
            (cjobs[c].status = "cancelled" /\ pcj[c] = "started"
             /\ pcj'[c] \notin {"started", "revoked"})
                => /\ cjobs' = cjobs /\ psv' = psv
                   /\ catalog' = catalog /\ server' = server
       /\ \A c \in CrawlIds, s \in Services :
            (cjobs[c].status = "cancelled" /\ psv[c][s].pc = "queued"
             /\ psv'[c][s].pc # "queued")
                => /\ cjobs' = cjobs /\ psv'[c][s].pc = "done"
                   /\ catalog' = catalog /\ server' = server]_vars

\* C11: when a DownloadJob was flipped to Cancelled while the adapter was
\* fetching pages, at most the page in flight is requested after the flip, and
\* the attempt stores nothing: no cache table and no object of that attempt.
C11_CancelSeenBetweenPages ==
    (HasJob /\ hist.flip[run.job] = "fetching")
        => /\ run.late <= 1
           /\ ~(stbl.exists /\ stbl.by = run.attempt)
           /\ ~(tbl.exists /\ tbl.by = run.attempt)
           /\ s3.landing # run.attempt
           /\ s3.data # run.attempt
           /\ s3.tiles # run.attempt

\* Services of crawl c whose process_service task committed its progress.
CompletedServices(c) == {s \in Services : psv[c][s].completed}

\* C12: when all process_service tasks of a CrawlJob have finished,
\* services_processed equals the number of services whose processing
\* completed and does not exceed total_services (jobs that only the Celery
\* tasks processed).
C12_ServicesCountedOnce ==
    \A c \in CrawlIds :
        (/\ pcj[c] = "success"
         /\ c \notin cw.took
         /\ \A s \in Services : psv[c][s].pc \in {"none", "done"})
            => /\ cjobs[c].services_processed = Cardinality(CompletedServices(c))
               /\ cjobs[c].services_processed <= cjobs[c].total_services

\* C13: the progress counters of a job never decrease from one committed
\* state to the next: services_processed and datasets_discovered of a CrawlJob
\* (jobs that only the Celery tasks processed), features_stored of a
\* DownloadJob.
C13_CountersMonotonic ==
    [][/\ \A c \in CrawlIds :
            c \notin cw'.took
                => /\ cjobs'[c].services_processed >= cjobs[c].services_processed
                   /\ cjobs'[c].datasets_discovered >= cjobs[c].datasets_discovered
       /\ \A j \in JobIds :
            jobs'[j].features_stored >= jobs[j].features_stored]_vars

\* C14: there is at most one Dataset row per (server, access URL), whatever
\* crawls and service tasks ran, concurrently or one after the other.
C14_OneRowPerAccessUrl == \A u \in Services : catalog[u] <= 1

\* C15: for every completed crawl, datasets_new is the number of Dataset rows
\* the crawl inserted and datasets_updated the number of rows it updated.
C15_NewAndUpdatedCounts ==
    \A c \in CrawlIds :
        cjobs[c].status = "completed"
            => /\ cjobs[c].datasets_new = chist[c].inserted
               /\ cjobs[c].datasets_updated = chist[c].updated

\* C16: when a crawl has completed, every Dataset row of the server whose
\* access URL the remote catalog no longer lists has is_active = false.
C16_AbsentDatasetsDeactivated ==
    \A c \in CrawlIds :
        cjobs[c].status = "completed"
            => \A u \in Services :
                  (u > upstream /\ catalog[u] > 0) => ActiveRows(u) = 0

\* ===========================================================================
\* ArcGISAdapter (adapters/arcgis.py): single calls of its methods, followed
\* on their own; the rest of the system is at rest.

Quiet ==
    /\ DlInit
    /\ cfg = [STORAGE_BACKEND |-> "postgis",
              USE_OBJECT_STORAGE_FOR_LARGE_DATASETS |-> FALSE]
    /\ dataset.download_strategy = "simple"
    /\ use_celery = TRUE /\ upstream = 0
    /\ catalog = KnownCatalog(0)
    /\ CrawlIdle
    /\ peer = NoPeer

\* ---------------------------------------------------------------------------
\* check_changed

MaxStamp == 3

\* lastEditDate of the layer info: milliseconds since the epoch, or absent.
Absent == -1
LastEditDates == {Absent} \cup 1..MaxStamp

\* Offsets of the worker's local time zone from UTC, in the unit of the stamps.
LocalOffsets == {0, 1}

\* A datetime: wall-clock value and whether it carries a tzinfo. None is the
\* Python None.
None == [none |-> TRUE]
Naive(t) == [t |-> t, aware |-> FALSE]
Aware(t) == [t |-> t, aware |-> TRUE]

\* Values of source_updated_at: none, a naive UTC datetime (utcnow), or the
\* timezone-aware datetime a timestamptz column reads back as.
CachedDates == {None} \cup {Naive(t) : t \in 0..MaxStamp} \cup {Aware(t) : t \in 0..MaxStamp}

\* _parse_edit_date: datetime.fromtimestamp(last_edit / 1000) is the naive
\* local time of the worker.
parse_edit_date(last_edit, offset) ==
    IF last_edit = Absent \/ last_edit = 0 THEN None
    ELSE Naive(last_edit + offset)

Inconclusive == [result |-> "inconclusive", changed |-> FALSE, conclusive |-> FALSE]

\* check_changed: the layer request, the parse and the comparison; comparing
\* a naive with an aware datetime raises TypeError, which the except turns
\* into Inconclusive like a failed request.
check_changed(request_ok, last_edit, offset, source_updated_at) ==
    IF ~request_ok THEN Inconclusive
    ELSE LET current_edit_date == parse_edit_date(last_edit, offset) IN
         IF source_updated_at # None /\ current_edit_date # None
         THEN IF source_updated_at.aware # current_edit_date.aware
              THEN Inconclusive
              ELSE LET changed == current_edit_date.t > source_updated_at.t IN
                   [result |-> IF changed THEN "changed" ELSE "unchanged",
                    changed |-> changed, conclusive |-> TRUE]
         ELSE IF current_edit_date # None
         THEN [result |-> "changed", changed |-> TRUE, conclusive |-> TRUE]
         ELSE Inconclusive

CheckChangedInit ==
    /\ Quiet
    /\ \E request_ok \in BOOLEAN, last_edit \in LastEditDates,
          offset \in LocalOffsets, cached \in CachedDates :
          ad = [op |-> "check_changed", pc |-> "call", request_ok |-> request_ok,
                last_edit |-> last_edit, offset |-> offset,
                source_updated_at |-> cached, info |-> Inconclusive]

check_changed_call ==
    /\ ad.op = "check_changed" /\ ad.pc = "call"
    /\ ad' = [ad EXCEPT !.pc = "done",
                        !.info = check_changed(ad.request_ok, ad.last_edit,
                                               ad.offset, ad.source_updated_at)]
    /\ UNCHANGED <<dlvars, crawlvars, peer>>

CheckChangedNext == check_changed_call

CheckChangedSpec == CheckChangedInit /\ [][CheckChangedNext]_vars

\* ---------------------------------------------------------------------------
\* _request under @retry(stop=stop_after_attempt(5),
\*                       wait=wait_exponential(min=1, max=10), reraise=True)

\* What one HTTP attempt can end in: a parsed body, or one of the exceptions
\* the except clauses of _request raise again.
Transient == {"5xx", "429", "timeout", "network", "protocol"}
AttemptOutcomes == {"ok", "4xx", "bad_json"} \cup Transient

\* Variant of the stop condition that allows a sixth attempt.
stop_after_six(attempt_number) == attempt_number >= 6

stop_after_attempt(attempt_number) == attempt_number >= 5

\* No retry= argument is given: tenacity's default retries on any exception.
retry_if_exception_type(outcome) == outcome # "ok"

wait_exponential(attempt_number) ==
    LET exp == 2 ^ (attempt_number - 1) IN
    IF exp > 10 THEN 10 ELSE IF exp < 1 THEN 1 ELSE exp

RequestInit ==
    /\ Quiet
    /\ ad = [op |-> "request", pc |-> "attempt", log |-> <<>>, slept |-> 0]

\* One attempt: client.get, raise_for_status, decoding; then tenacity decides
\* between returning, raising the last exception and waiting.
request_attempt ==
    /\ ad.op = "request" /\ ad.pc = "attempt"
    /\ \E outcome \in AttemptOutcomes :
          LET attempt_number == Len(ad.log) + 1 IN
          ad' = [ad EXCEPT !.log = Append(@, outcome),
                           !.pc = IF ~retry_if_exception_type(outcome) THEN "returned"
                                  ELSE IF stop_after_attempt(attempt_number) THEN "raised"
                                  ELSE "wait"]
    /\ UNCHANGED <<dlvars, crawlvars, peer>>

request_wait ==
    /\ ad.op = "request" /\ ad.pc = "wait"
    /\ ad' = [ad EXCEPT !.pc = "attempt",
                        !.slept = @ + wait_exponential(Len(ad.log))]
    /\ UNCHANGED <<dlvars, crawlvars, peer>>

RequestNext == request_attempt \/ request_wait

RequestSpec == RequestInit /\ [][RequestNext]_vars

\* ---------------------------------------------------------------------------
\* download_paged, page by page, each page through _request and its retries

\* max_records of the call (NULL: not given) and the most features the server
\* puts in one response.
MaxRecordsGiven == {NULL, 200, page_size}
ServerPageCaps == {batch_size \div 4, batch_size}

PageOutcomes == {"features", "empty", "remote_close", "timeout"}

\* page_size = max(100, page_size // 2)
halved(size) == IF size \div 2 > 100 THEN size \div 2 ELSE 100

\* Lengths of what download_paged writes: json.dump of the empty
\* FeatureCollection, the header of the streamed file, its footer "]}", and
\* one dumped feature (every feature is taken to be of one length).
EmptyCollectionBytes == 45
HeaderBytes == 43
FooterBytes == 2
FeatureBytes == 100

\* The bytes the loop writes for a page of len features: a comma before
\* every feature but the first of the file.
page_bytes(len, first_batch) ==
    (len * FeatureBytes) + (IF first_batch THEN len - 1 ELSE len)

PagedInit ==
    /\ Quiet
    /\ \E max_records \in MaxRecordsGiven, cap \in ServerPageCaps :
          ad = [op |-> "download_paged", pc |-> "count",
                max_records |-> max_records, cap |-> cap,
                page_size |-> IF max_records # NULL THEN max_records ELSE page_size,
                total_count |-> 0, offset |-> 0, feature_count |-> 0,
                consecutive_connection_errors |-> 0,
                attempt |-> 0, closes |-> 0, success |-> FALSE,
                file_bytes |-> 0, size_bytes |-> 0]

\* The count query; a failure of it is caught by the outer except.
paged_count_query ==
    /\ ad.op = "download_paged" /\ ad.pc = "count"
    /\ \E ok \in BOOLEAN, total_count \in FeatureTotals :
          ad' = IF ~ok THEN [ad EXCEPT !.pc = "returned"]
                ELSE IF total_count = 0
                THEN [ad EXCEPT !.pc = "returned", !.success = TRUE,
                                !.file_bytes = EmptyCollectionBytes,
                                !.size_bytes = 0]
                ELSE [ad EXCEPT !.pc = "page", !.total_count = total_count,
                                !.file_bytes = HeaderBytes]
    /\ UNCHANGED <<dlvars, crawlvars, peer>>

\* What the except clause of the page loop does with the exception that
\* _request raised after its last attempt.
paged_on_error(kind) ==
    IF kind = "remote_close"
    THEN LET errors == ad.consecutive_connection_errors + 1 IN
         IF ad.page_size > 100 /\ errors >= 2
         THEN [ad EXCEPT !.consecutive_connection_errors = errors,
                         !.page_size = halved(ad.page_size),
                         !.attempt = 0]
         ELSE [ad EXCEPT !.consecutive_connection_errors = errors,
                         !.pc = "returned"]
    ELSE [ad EXCEPT !.pc = "returned"]

\* One HTTP attempt for the page at the current offset.
paged_attempt ==
    /\ ad.op = "download_paged" /\ ad.pc = "page"
    /\ \E outcome \in PageOutcomes :
          LET attempt_number == ad.attempt + 1
              len == Min(Min(ad.page_size, ad.cap), ad.total_count - ad.offset)
              closes == IF outcome = "remote_close" THEN ad.closes + 1 ELSE 0
              seen == [ad EXCEPT !.closes = closes]
              last == ~(ad.offset + len < ad.total_count)
              written == ad.file_bytes + page_bytes(len, ad.feature_count = 0)
          IN ad' =
               IF outcome = "features"
               THEN [seen EXCEPT !.offset = @ + len,
                                 !.feature_count = @ + len,
                                 !.consecutive_connection_errors = 0,
                                 !.attempt = 0,
                                 !.pc = IF last THEN "returned" ELSE "page",
                                 !.success = last,
                                 !.file_bytes = IF last THEN written + FooterBytes
                                                ELSE written,
                                 !.size_bytes = IF last THEN written + FooterBytes
                                                ELSE 0]
               ELSE IF outcome = "empty"
               THEN [seen EXCEPT !.pc = "returned", !.success = TRUE,
                                 !.file_bytes = @ + FooterBytes,
                                 !.size_bytes = ad.file_bytes + FooterBytes]
               ELSE IF ~stop_after_attempt(attempt_number)
               THEN [seen EXCEPT !.attempt = attempt_number]
               ELSE [paged_on_error(outcome) EXCEPT !.closes = closes]
    /\ UNCHANGED <<dlvars, crawlvars, peer>>

PagedNext == paged_count_query \/ paged_attempt

PagedSpec == PagedInit /\ [][PagedNext]_vars

\* ---------------------------------------------------------------------------
\* download_parallel: the split of the OID range

MaxOid == 8
MaxWorkers == 4

Max(a, b) == IF a > b THEN a ELSE b

\* chunks: for i in range(num_workers), the pair (chunk_min, chunk_max) is
\* appended when chunk_min <= max_oid.
RECURSIVE chunks_from(_, _, _, _, _)
chunks_from(i, num_workers, min_oid, max_oid, chunk_size) ==
    IF i >= num_workers THEN <<>>
    ELSE LET chunk_min == min_oid + (i * chunk_size)
             chunk_max == Min(min_oid + ((i + 1) * chunk_size) - 1, max_oid)
             rest == chunks_from(i + 1, num_workers, min_oid, max_oid, chunk_size)
         IN IF chunk_min <= max_oid THEN <<(<<chunk_min, chunk_max>>)>> \o rest
            ELSE rest

oid_chunks(min_oid, max_oid, num_workers) ==
    LET total_range == max_oid - min_oid + 1
        chunk_size == Max(1, total_range \div num_workers)
    IN chunks_from(0, num_workers, min_oid, max_oid, chunk_size)

ParallelInit ==
    /\ Quiet
    /\ \E min_oid \in 1..MaxOid, num_workers \in 1..MaxWorkers :
       \E max_oid \in min_oid..MaxOid :
          ad = [op |-> "download_parallel", pc |-> "split", min_oid |-> min_oid,
                max_oid |-> max_oid, num_workers |-> num_workers, chunks |-> <<>>,
                results |-> <<>>, success |-> FALSE, feature_count |-> 0]

download_parallel_split ==
    /\ ad.op = "download_parallel" /\ ad.pc = "split"
    /\ LET chunks == oid_chunks(ad.min_oid, ad.max_oid, ad.num_workers) IN
       ad' = [ad EXCEPT !.pc = "fetch",
                        !.chunks = chunks,
                        !.results = [i \in 1..Len(chunks) |-> "pending"]]
    /\ UNCHANGED <<dlvars, crawlvars, peer>>

\* fetch_by_oid_range: the features of the range, or None when _request
\* raised; the exception is logged and goes no further.
fetch_by_oid_range(i) ==
    /\ ad.op = "download_parallel" /\ ad.pc = "fetch"
    /\ i \in 1..Len(ad.chunks)
    /\ ad.results[i] = "pending"
    /\ \E request_ok \in BOOLEAN :
         ad' = [ad EXCEPT !.results[i] = IF request_ok THEN "features" ELSE "None"]
    /\ UNCHANGED <<dlvars, crawlvars, peer>>

\* Number of features of the ranges that were fetched: `if features:` leaves
\* out a range whose fetch returned None.
RECURSIVE all_features(_, _, _)
all_features(chunks, results, i) ==
    IF i > Len(chunks) THEN 0
    ELSE (IF results[i] = "features" THEN chunks[i][2] - chunks[i][1] + 1 ELSE 0)
         + all_features(chunks, results, i + 1)

\* After asyncio.gather: the features are concatenated and written, and the
\* result is DownloadResult(success=True, feature_count=len(all_features)).
download_parallel_gather ==
    /\ ad.op = "download_parallel" /\ ad.pc = "fetch"
    /\ \A i \in 1..Len(ad.chunks) : ad.results[i] # "pending"
    /\ ad' = [ad EXCEPT !.pc = "returned", !.success = TRUE,
                        !.feature_count = all_features(ad.chunks, ad.results, 1)]
    /\ UNCHANGED <<dlvars, crawlvars, peer>>

ParallelNext ==
    \/ download_parallel_split
    \/ \E i \in 1..MaxWorkers : fetch_by_oid_range(i)
    \/ download_parallel_gather

ParallelSpec == ParallelInit /\ [][ParallelNext]_vars

\* ---------------------------------------------------------------------------
\* Two downloads of one dataset at the same time.  store_dataset names the
\* table cache_<dataset_id.hex>, so both downloads work on the same table, and
\* _store_in_postgis_streaming takes no lock on the dataset, the job or the
\* table.  With a job every step ends in a commit, so that the steps of two
\* stores alternate freely.  The second download is a job of another worker
\* process; of its job only the store is followed.

PeerAttempt == -1

\* DROP TABLE IF EXISTS, CREATE TABLE; stage "storing" is committed.
peer_store_in_postgis_create ==
    /\ peer.pc = "pg_store"
    /\ tbl' = [exists |-> TRUE, rows |-> 0, indexed |-> FALSE,
               src |-> peer.n, by |-> peer.attempt]
    /\ stbl' = tbl'
    /\ peer' = [peer EXCEPT !.pc = "pg_loop"]
    /\ UNCHANGED crawlvars
    /\ UNCHANGED ad
    /\ UNCHANGED <<cfg, dataset, jobs, s3, now, dlq, dispatched, run, sds, pw, syncs, hist>>

\* A full batch is inserted into the table of that name and the progress is
\* committed; after the last one the loop ends.
peer_store_in_postgis_batch ==
    /\ peer.pc = "pg_loop"
    /\ peer.count < peer.n
    /\ LET k == Min(batch_size, peer.n - peer.count) IN
       /\ peer' = [peer EXCEPT !.count = @ + k]
       /\ IF k < batch_size
          THEN UNCHANGED <<tbl, stbl>>
          ELSE /\ tbl' = [tbl EXCEPT !.rows = @ + k]
               /\ stbl' = tbl'
    /\ UNCHANGED crawlvars
    /\ UNCHANGED ad
    /\ UNCHANGED <<cfg, dataset, jobs, s3, now, dlq, dispatched, run, sds, pw, syncs, hist>>

\* The remaining features are inserted, the final counts and then stage
\* "indexing" are committed.
peer_store_in_postgis_remaining ==
    /\ peer.pc = "pg_loop"
    /\ peer.count = peer.n
    /\ tbl' = [tbl EXCEPT !.rows = @ + (peer.n % batch_size)]
    /\ stbl' = tbl'
    /\ peer' = [peer EXCEPT !.pc = "pg_create_index"]
    /\ UNCHANGED crawlvars
    /\ UNCHANGED ad
    /\ UNCHANGED <<cfg, dataset, jobs, s3, now, dlq, dispatched, run, sds, pw, syncs, hist>>

\* CREATE INDEX, commit; the statement raises when the index exists.
peer_store_in_postgis_create_index ==
    /\ peer.pc = "pg_create_index"
    /\ IF tbl.indexed
       THEN /\ peer' = [peer EXCEPT !.pc = "raise"]
            /\ UNCHANGED <<tbl, stbl>>
       ELSE /\ tbl' = [tbl EXCEPT !.indexed = TRUE]
            /\ stbl' = tbl'
            /\ peer' = [peer EXCEPT !.pc = "pg_returned"]
    /\ UNCHANGED crawlvars
    /\ UNCHANGED ad
    /\ UNCHANGED <<cfg, dataset, jobs, s3, now, dlq, dispatched, run, sds, pw, syncs, hist>>

\* A job of a simple dataset runs in a Celery worker while the second
\* download of the dataset has fetched its features and is about to store
\* them.
OverlapInit ==
    /\ DlInit
    /\ cfg = [STORAGE_BACKEND |-> "postgis",
              USE_OBJECT_STORAGE_FOR_LARGE_DATASETS |-> FALSE]
    /\ dataset.download_strategy = "simple"
    /\ use_celery = TRUE /\ upstream = 0
    /\ catalog = KnownCatalog(0)
    /\ CrawlIdle
    /\ ad = NoCall
    /\ \E n \in FeatureTotals \ {0} :
         peer = [pc |-> "pg_store", attempt |-> PeerAttempt, n |-> n, count |-> 0]

OverlapNext ==
    \/ \E j \in JobIds : insert_pending_job(j)
    \/ \E j \in JobIds : dispatch_download_job(j)
    \/ \E j \in JobIds : process_download_job(j)
    \/ \E j \in JobIds : download_simple(j)
    \/ adapter_download_paged_count
    \/ adapter_download_paged_page
    \/ download_and_cache_fetch
    \/ task_completed
    \/ task_failed
    \/ store_in_postgis_create
    \/ store_in_postgis_batch
    \/ store_in_postgis_remaining
    \/ store_in_postgis_indexing
    \/ store_in_postgis_create_index
    \/ download_and_cache_postgis_done
    \/ peer_store_in_postgis_create
    \/ peer_store_in_postgis_batch
    \/ peer_store_in_postgis_remaining
    \/ peer_store_in_postgis_create_index

OverlapSpec == OverlapInit /\ [][OverlapNext]_vars

\* The store of the job is between its CREATE TABLE and its CREATE INDEX.
RunWritesTable == run.pc \in {"pg_loop", "pg_index", "pg_create_index"}

\* So is the store of the second download.
PeerWritesTable == peer.pc \in {"pg_loop", "pg_create_index"}

\* C25: at most one download writes the cache table of a dataset at a time:
\* while a store is between its CREATE TABLE and its CREATE INDEX, the table
\* of that name is the one this store created, and no other store is between
\* these steps on it.
C25_OneWriterPerCacheTable ==
    /\ ~(RunWritesTable /\ PeerWritesTable)
    /\ RunWritesTable => (tbl.exists /\ tbl.by = run.attempt)
    /\ PeerWritesTable => (tbl.exists /\ tbl.by = peer.attempt)

LiveStatus == {"running", "pending"}

C19_CancelledHasNoError ==
    /\ \A c \in CrawlIds : cjobs[c].status = "cancelled" => ~cjobs[c].error
    /\ \A j \in JobIds : jobs[j].status = "cancelled" => ~jobs[j].error

\* The timestamps a job row may carry in its status.
TimestampsFit(job) ==
    /\ job.status \in TerminalStatus
          => /\ job.started_at # NULL
             /\ job.completed_at # NULL
             /\ job.completed_at >= job.started_at
    /\ job.status = "pending"
          => /\ job.started_at = NULL
             /\ job.completed_at = NULL

\* C20: in every committed state a Completed, Failed or Cancelled job has a
\* completed_at that is not before its started_at, both set, and a Pending
\* job has neither.
C20_TimestampsMatchStatus ==
    /\ \A c \in CrawlIds : TimestampsFit(cjobs[c])
    /\ \A j \in JobIds : TimestampsFit(jobs[j])

\* A task or message for job j is still under way.
InFlight(j) ==
    \/ run.job = j
    \/ pw.cur = j
    \/ \E msg \in dlq : msg[2] = j

\* C21: a job whose task was aborted by the hard time limit does not remain
\* Running once the task is gone.
C21_TimedOutJobNotRunning ==
    \A j \in JobIds :
        (j \in hist.killed /\ ~InFlight(j)) => jobs[j].status # "running"

\* C22: the committed Dataset row of a cached dataset names the storage of
\* its storage_format and no other: "postgis" goes with a cache_table and no
\* s3_data_key, "geoparquet" with an s3_data_key and no cache_table, also
\* after a re-download into the other backend.
C22_StorageModeMatchesKeys ==
    dataset.is_cached
        => /\ dataset.storage_format = "postgis"
                => dataset.cache_table # NoName /\ dataset.s3_data_key = NoName
           /\ dataset.storage_format = "geoparquet"
                => dataset.s3_data_key # NoName /\ dataset.cache_table = NoName

\* C23: check_changed decides from the two dates: with both present the
\* result is conclusive and is Changed exactly when the upstream date is
\* later than the cached one; with only the upstream date it is Changed; with
\* no upstream date it is Inconclusive and not conclusive.
C23_CheckChangedDecides ==
    (ad.op = "check_changed" /\ ad.pc = "done") =>
        LET upstream_present == ad.request_ok /\ ad.last_edit # Absent
            cached == ad.source_updated_at
        IN /\ (upstream_present /\ cached # None)
                 => /\ ad.info.conclusive
                    /\ ad.info.result =
                          IF ad.last_edit > cached.t THEN "changed" ELSE "unchanged"
           /\ (upstream_present /\ cached = None) => ad.info.result = "changed"
           /\ ~upstream_present
                 => ad.info.result = "inconclusive" /\ ~ad.info.conclusive

\* C26: a response with a 4xx status other than 429 is never retried: no
\* attempt of the same _request call follows it, and the call raises.
C26_ClientErrorNotRetried ==
    ad.op = "request" =>
        \A i \in 1..Len(ad.log) :
            ad.log[i] = "4xx" => i = Len(ad.log) /\ ad.pc = "raised"

\* C27: a _request call makes at most 5 HTTP attempts; after the fifth
\* transient failure the error propagates to the caller.
C27_AtMostFiveAttempts ==
    ad.op = "request" =>
        /\ Len(ad.log) <= 5
        /\ (Len(ad.log) = 5 /\ ad.log[5] \in Transient) => ad.pc = "raised"

\* C27 witness: five transient failures in a row, and the call has raised.
C27_Witness ==
    /\ ad.op = "request" /\ ad.pc = "raised"
    /\ Len(ad.log) = 5
    /\ \A i \in 1..5 : ad.log[i] \in Transient

\* C28: when the page at an offset has failed with a remote-close error
\* twice in a row and the page size is above 100, the page size has been
\* halved and the download goes on at the same offset.
C28_HalvesAfterTwoCloses ==
    (ad.op = "download_paged" /\ ad.closes >= 2
        /\ (IF ad.max_records # NULL THEN ad.max_records ELSE page_size) > 100)
        => /\ ad.page_size < (IF ad.max_records # NULL THEN ad.max_records ELSE page_size)
           /\ ad.pc = "page"

\* C29: a paged download that returns success has written every feature:
\* feature_count equals the total of the count query.
C29_SuccessHasAllFeatures ==
    (ad.op = "download_paged" /\ ad.pc = "returned" /\ ad.success)
        => ad.feature_count = ad.total_count

\* C30: the ranges download_parallel fetches are inclusive, pairwise
\* disjoint and contiguous, and their union is exactly [min_oid, max_oid].
C30_ChunksCoverOidRange ==
    (ad.op = "download_parallel" /\ ad.pc = "fetch") =>
        LET ch == ad.chunks IN
        /\ \A i \in 1..Len(ch) : ch[i][1] <= ch[i][2]
        /\ \A i \in 1..(Len(ch) - 1) : ch[i + 1][1] = ch[i][2] + 1
        /\ UNION {ch[i][1]..ch[i][2] : i \in 1..Len(ch)} = ad.min_oid..ad.max_oid

\* The body of crawl.process_server has set the job Running.
TakenByCelery(c) == pcj[c] \in {"running", "success", "failure"}

\* C24: no CrawlJob is picked up both by the polling CrawlWorker of the API
\* process and by a Celery worker.
C24_JobPickedUpOnce ==
    \A c \in CrawlIds : ~(c \in cw.took /\ TakenByCelery(c))

\* C31: a parallel download that returns success holds the features of
\* every OID range: no range whose fetch failed is missing from a result
\* reported as a success.
C31_ParallelSuccessHasEveryRange ==
    (ad.op = "download_parallel" /\ ad.pc = "returned" /\ ad.success) =>
        \A i \in 1..Len(ad.chunks) : ad.results[i] = "features"

\* C32: a process_service task that fails with a transient adapter error is
\* retried at the task level before its failure is final: a service whose
\* task has ended in failure was attempted more than once.
C32_FailedServiceWasRetried ==
    \A c \in CrawlIds, s \in Services :
        (psv[c][s].pc = "done" /\ psv[c][s].failed) => psv[c][s].tries > 1

\* ---------------------------------------------------------------------------
\* DownloadService._should_use_object_storage on its own: every
\* configuration, a Dataset row of any strategy that is uncached or that an
\* earlier download stored in object storage and flagged use_s3_storage, and
\* feature counts around the threshold.

CountsAroundThreshold ==
    {0, 1, MIN_FEATURES_FOR_OBJECT_STORAGE - 1, MIN_FEATURES_FOR_OBJECT_STORAGE,
     MIN_FEATURES_FOR_OBJECT_STORAGE + 1}

SelectorInit ==
    /\ DlInit
    /\ use_celery = TRUE /\ upstream = 0
    /\ catalog = KnownCatalog(0)
    /\ CrawlIdle
    /\ peer = NoPeer
    /\ \E flagged \in BOOLEAN, known \in CountsAroundThreshold,
          feature_count \in CountsAroundThreshold :
         ad = [op |-> "should_use_object_storage", pc |-> "call",
               dataset |-> IF flagged
                           THEN [CachedInObjectStorage EXCEPT
                                    !.download_strategy = dataset.download_strategy,
                                    !.feature_count = known]
                           ELSE [dataset EXCEPT !.feature_count = known],
               feature_count |-> feature_count, result |-> FALSE]

should_use_object_storage_call ==
    /\ ad.op = "should_use_object_storage" /\ ad.pc = "call"
    /\ ad' = [ad EXCEPT !.pc = "returned",
                        !.result = should_use_object_storage(ad.dataset, ad.feature_count)]
    /\ UNCHANGED <<dlvars, crawlvars, peer>>

SelectorNext == should_use_object_storage_call

SelectorSpec == SelectorInit /\ [][SelectorNext]_vars

\* C33: in hybrid mode with no backend forced by configuration, object
\* storage is selected if and only if the feature count is above the
\* threshold or the download strategy is chunked or distributed.
C33_HybridSelectsByCountAndStrategy ==
    (/\ ad.op = "should_use_object_storage" /\ ad.pc = "returned"
     /\ cfg.STORAGE_BACKEND = "hybrid"
     /\ cfg.USE_OBJECT_STORAGE_FOR_LARGE_DATASETS) =>
        LET count == IF ad.feature_count # 0 THEN ad.feature_count
                     ELSE ad.dataset.feature_count
        IN ad.result <=> (\/ count > MIN_FEATURES_FOR_OBJECT_STORAGE
                          \/ ad.dataset.download_strategy \in {"chunked", "distributed"})

\* The stage labels of a download in their order.
StageOrder == <<"routing", "downloading", "storing", "indexing", "complete">>

StageRank(label) == CHOOSE i \in 1..Len(StageOrder) : StageOrder[i] = label

StageLabels == {StageOrder[i] : i \in 1..Len(StageOrder)}

\* C34: the current_stage of a DownloadJob only moves forward through
\* routing, downloading, storing, indexing, complete: every committed change
\* of the label of a job that has not failed and was not cancelled goes to a
\* later one of these labels, whichever backend stores the dataset.
C34_StageOnlyMovesForward ==
    [][\A j \in JobIds :
         LET old == jobs[j].current_stage
             new == jobs'[j].current_stage
         IN (/\ new # old
             /\ old \notin {"failed", "cancelled"}
             /\ new \notin {"failed", "cancelled"}) =>
                /\ new \in StageLabels
                /\ old = NoName \/ (old \in StageLabels /\ StageRank(old) < StageRank(new))]_vars

\* C35: while a download task is fetching pages, features_downloaded and
\* total_features of its DownloadJob are, after each page, the number of
\* features written so far and the upstream total count.
C35_ProgressFollowsPages ==
    (HasJob /\ run.pc = "paging" /\ run.n > 0) =>
        /\ jobs[run.job].features_downloaded = run.n
        /\ jobs[run.job].total_features = run.total

\* GET /download/jobs/{id}: the derived percentage, rounded down; NoProgress
\* stands for None.  total_chunks is never set, so the last branch gives None.
NoProgress == -1

get_job_status(job) ==
    IF job.current_stage = "downloading" /\ job.total_features # NULL
    THEN (job.features_downloaded * 70) \div job.total_features
    ELSE IF job.current_stage = "storing" /\ job.total_features # NULL
    THEN 70 + ((job.features_stored * 25) \div job.total_features)
    ELSE IF job.current_stage = "indexing" THEN 95
    ELSE IF job.status = "completed" THEN 100
    ELSE NoProgress

\* C36: in every job state reachable during a download, the percentage of
\* the job status endpoint lies within [0, 100], and features_stored never
\* exceeds total_features while the job is in the storing stage.
C36_ProgressWithinBounds ==
    \A j \in JobIds :
        /\ get_job_status(jobs[j]) # NoProgress =>
               (0 <= get_job_status(jobs[j]) /\ get_job_status(jobs[j]) <= 100)
        /\ (jobs[j].current_stage = "storing" /\ jobs[j].total_features # NULL) =>
               jobs[j].features_stored <= jobs[j].total_features

\* Rows the storing session has inserted into the cache table and not yet
\* committed: the rows of a table it created and has not committed, or those
\* it added to the committed table.
UncommittedRows ==
    IF ~stbl.exists THEN 0
    ELSE IF tbl.exists /\ tbl.by = stbl.by THEN stbl.rows - tbl.rows
    ELSE stbl.rows

\* C37: while the spatial-DB backend stores a dataset, inserted rows are
\* committed every 1,000 rows: at no point are more than 1,000 inserted rows
\* uncommitted, with or without a job.
C37_CommitsEveryBatch ==
    run.pc \in {"pg_loop", "pg_index", "pg_create_index"} =>
        UncommittedRows <= batch_size

\* C38: every successful paged download reports a size_bytes equal to the
\* size of the output file it wrote, the download of an empty layer included.
C38_SizeBytesIsFileSize ==
    (ad.op = "download_paged" /\ ad.pc = "returned" /\ ad.success)
        => ad.size_bytes = ad.file_bytes

\* ---------------------------------------------------------------------------
\* ProxyManager (core/proxy.py).  A provider is its place of registration
\* (which also stands for the URL it hands out), its priority, whether it is
\* enabled, and what its get_proxy does: a URL, None, or an exception.

MaxRegistered == 2

ProviderYields == {"url", "none", "raises"}

\* The providers of the module: a disabled one hands out nothing.
BuiltinBehaviours ==
    {[enabled |-> TRUE, yields |-> y] : y \in ProviderYields}
        \cup {[enabled |-> FALSE, yields |-> "none"]}

\* Any implementation of the ProxyProvider interface.
ProviderBehaviours == [enabled : BOOLEAN, yields : ProviderYields]

\* Priorities of providers registered later: Proxifly's 50, one equal to the
\* free pool's and one above the server-specific provider's.
RegisteredPriorities == {50, 100, 2000}

Provider(id, priority, b) ==
    [id |-> id, priority |-> priority, enabled |-> b.enabled, yields |-> b.yields]

\* The connection blob of the server: none given, one without proxy
\* settings, one with a proxy URL, one with Proxifly settings without a key.
ServerConfigs == {"absent", "no_proxy", "url", "none"}

ServerUrl == 0
NoProxy == -1

\* list.sort(key=priority, reverse=True) is stable: an element goes behind
\* the elements of the same or a higher priority that came before it.
RECURSIVE insert_by_priority(_, _)
insert_by_priority(sorted, p) ==
    IF sorted = <<>> THEN <<p>>
    ELSE IF Head(sorted).priority >= p.priority
    THEN <<Head(sorted)>> \o insert_by_priority(Tail(sorted), p)
    ELSE <<p>> \o sorted

RECURSIVE sort_by_priority(_)
sort_by_priority(list) ==
    IF list = <<>> THEN <<>>
    ELSE insert_by_priority(sort_by_priority(SubSeq(list, 1, Len(list) - 1)),
                            list[Len(list)])

\* __init__: the free-pool provider (priority 100) and the static provider
\* (priority 0) are registered.
ProxyInit ==
    /\ Quiet
    /\ \E free \in BuiltinBehaviours, static \in BuiltinBehaviours :
         ad = [op |-> "proxy_manager", pc |-> "ready",
               providers |-> sort_by_priority(
                   <<Provider(1, 100, free), Provider(2, 0, static)>>),
               server |-> "absent", result |-> NoProxy]

\* Variant of register_provider that appends and does not sort.
register_provider_unsorted(priority, b) ==
    /\ ad.op = "proxy_manager" /\ ad.pc = "ready"
    /\ Len(ad.providers) < 2 + MaxRegistered
    /\ ad' = [ad EXCEPT !.providers =
                  Append(ad.providers, Provider(Len(ad.providers) + 1, priority, b))]
    /\ UNCHANGED <<dlvars, crawlvars, peer>>

\* register_provider: append, then sort by priority, highest first.
register_provider(priority, b) ==
    /\ ad.op = "proxy_manager" /\ ad.pc = "ready"
    /\ Len(ad.providers) < 2 + MaxRegistered
    /\ ad' = [ad EXCEPT !.providers =
                  sort_by_priority(
                      Append(ad.providers, Provider(Len(ad.providers) + 1, priority, b)))]
    /\ UNCHANGED <<dlvars, crawlvars, peer>>

\* ServerProxyProvider(connection_config, priority=1000).
server_provider(config) ==
    [id |-> ServerUrl, priority |-> 1000,
     enabled |-> config \in {"url", "none"},
     yields |-> IF config = "url" THEN "url" ELSE "none"]

\* The loop over the providers: a disabled one is skipped, an exception of
\* get_proxy is swallowed, the first non-empty URL is returned.
RECURSIVE first_proxy(_)
first_proxy(providers) ==
    IF providers = <<>> THEN NoProxy
    ELSE LET provider == Head(providers) IN
         IF provider.enabled /\ provider.yields = "url" THEN provider.id
         ELSE first_proxy(Tail(providers))

get_proxy_for_server(config) ==
    /\ ad.op = "proxy_manager" /\ ad.pc = "ready"
    /\ LET providers ==
             IF config # "absent" /\ server_provider(config).enabled
             THEN <<server_provider(config)>> \o ad.providers
             ELSE ad.providers
       IN ad' = [ad EXCEPT !.pc = "returned", !.server = config,
                           !.result = first_proxy(providers)]
    /\ UNCHANGED <<dlvars, crawlvars, peer>>

ProxyNext ==
    \/ \E priority \in RegisteredPriorities, b \in ProviderBehaviours :
          register_provider(priority, b)
    \/ \E config \in ServerConfigs : get_proxy_for_server(config)

ProxySpec == ProxyInit /\ [][ProxyNext]_vars

\* The registered providers that are enabled and hand out a URL.
Yielding == {i \in 1..Len(ad.providers) :
                ad.providers[i].enabled /\ ad.providers[i].yields = "url"}

\* C39: get_proxy_for_server returns the URL of the server-specific provider
\* when that yields one, otherwise the URL of a registered provider that is
\* enabled and yields a URL and has the highest priority among these, and
\* nothing when there is none; providers that are disabled, raise or yield
\* nothing are passed over.
C39_FirstYieldingProviderByPriority ==
    (ad.op = "proxy_manager" /\ ad.pc = "returned") =>
        IF ad.server = "url" THEN ad.result = ServerUrl
        ELSE IF Yielding = {} THEN ad.result = NoProxy
        ELSE \E i \in Yielding :
                /\ ad.result = ad.providers[i].id
                /\ \A k \in Yielding :
                      ad.providers[k].priority <= ad.providers[i].priority

\* A provider registered last with priority 2000 is the one that answers,
\* although the free pool would yield a URL too, the server's blob was
\* consulted and yielded nothing, and another enabled provider raised.
C39_Witness ==
    /\ ad.op = "proxy_manager" /\ ad.pc = "returned"
    /\ ad.server = "none"
    /\ Len(ad.providers) = 4
    /\ ad.result = 4
    /\ \E i \in Yielding : ad.providers[i].id = 1
    /\ \E i \in 1..Len(ad.providers) :
          /\ ad.providers[i].enabled /\ ad.providers[i].yields = "raises"
          /\ ad.providers[i].priority = 2000

\* ---------------------------------------------------------------------------
\* ProxyScrapeProvider._fetch_proxies (core/proxy.py).  Time is counted in
\* steps of five minutes; a list is the number of its proxies and the time of
\* the fetch it came from.

MaxClock == 6

\* timedelta(minutes=15)
cache_ttl == 3

NoTime == -1

EmptyList == [proxies |-> 0, fetched_at |-> NoTime]

UpstreamOutcomes == {"proxies", "empty", "error"}

\* Variant of the cache check without the age of the cache.
cache_is_fresh_forever(force_refresh, cache, cache_time, now_) ==
    /\ ~force_refresh
    /\ cache.proxies # 0
    /\ cache_time # NoTime

\* The cache check: not forced, a non-empty list, a cache time, and less
\* than the TTL since that time.
cache_is_fresh(force_refresh, cache, cache_time, now_) ==
    /\ ~force_refresh
    /\ cache.proxies # 0
    /\ cache_time # NoTime
    /\ now_ - cache_time < cache_ttl

\* A new provider: an empty cache, no cache time; no call yet.
FreePoolInit ==
    /\ Quiet
    /\ ad = [op |-> "proxyscrape", clock |-> 0,
             cache |-> EmptyList, cache_time |-> NoTime,
             calls |-> 0, hits |-> 0,
             contacted |-> FALSE, returned |-> EmptyList]

\* Time passes.
clock_tick ==
    /\ ad.op = "proxyscrape"
    /\ ad.clock < MaxClock
    /\ ad' = [ad EXCEPT !.clock = @ + 1]
    /\ UNCHANGED <<dlvars, crawlvars, peer>>

\* get_proxy calls _fetch_proxies(): the cache when it is fresh; otherwise the
\* request to the API, whose list (possibly empty) replaces the cache, and
\* on any exception the cache as it is.
fetch_proxies ==
    /\ ad.op = "proxyscrape"
    /\ IF cache_is_fresh(FALSE, ad.cache, ad.cache_time, ad.clock)
       THEN ad' = [ad EXCEPT !.calls = 1, !.hits = 1,
                             !.contacted = FALSE, !.returned = ad.cache]
       ELSE \E outcome \in UpstreamOutcomes :
              LET proxies == [proxies |-> IF outcome = "proxies" THEN 1 ELSE 0,
                              fetched_at |-> ad.clock]
              IN ad' = IF outcome = "error"
                       THEN [ad EXCEPT !.calls = 1, !.contacted = TRUE,
                                       !.returned = ad.cache]
                       ELSE [ad EXCEPT !.calls = 1, !.contacted = TRUE,
                                       !.cache = proxies,
                                       !.cache_time = ad.clock,
                                       !.returned = proxies]
    /\ UNCHANGED <<dlvars, crawlvars, peer>>

FreePoolNext == clock_tick \/ fetch_proxies

FreePoolSpec == FreePoolInit /\ [][FreePoolNext]_vars

\* The step is a call of _fetch_proxies.
IsFetchCall == ad.op = "proxyscrape" /\ ad'.clock = ad.clock

\* C40: for 15 minutes after the fetch that filled it the free-pool provider
\* serves its cached list of proxies without contacting upstream, and it
\* never serves a list that is 15 minutes old or older without having
\* attempted a refresh in that call.
C40_CacheServedForTtlOnly ==
    [][IsFetchCall =>
         /\ (ad.cache.proxies # 0 /\ ad.clock - ad.cache.fetched_at < cache_ttl) =>
                (~ad'.contacted /\ ad'.returned = ad.cache /\ ad'.cache = ad.cache)
         /\ (ad'.returned.proxies # 0
                /\ ad.clock - ad'.returned.fetched_at >= cache_ttl) => ad'.contacted]_vars

\* A call has served the cache without a request, and the last call came when
\* the list was 15 minutes old or older: it asked upstream, the request
\* failed, and the old list was returned.
C40_Witness ==
    /\ ad.op = "proxyscrape"
    /\ ad.hits = 1
    /\ ad.contacted
    /\ ad.returned.proxies # 0
    /\ ad.clock - ad.returned.fetched_at >= cache_ttl

====
